---- MODULE Spec2Model ----
(***************************************************************************)
(* A model of the synchronization engine of bridge.py: the record store    *)
(* (DatabaseManager), the per-device client (DeviceClient) and the push    *)
(* and pull flows (SyncManager, BridgeCLI).                                *)
(*                                                                         *)
(* Representation choices                                                  *)
(*  - a text value read from the wire or from a column is a TLA+ string;   *)
(*    an absent value (Python None / SQL NULL) is the string None;         *)
(*  - a date or datetime text is a tuple of its characters (digits are     *)
(*    numbers in a datetime, one-character strings in a date), so that     *)
(*    slicing, formatting, parsing and lexicographic comparison are        *)
(*    computed and not assumed;                                            *)
(*  - the column syncedDevices (a JSON list of names) is the sequence of   *)
(*    those names;                                                         *)
(*  - accesslogs is a bag of rows without the generated id column: a       *)
(*    uuid4 never repeats, so two rows that agree in every other column    *)
(*    are two copies of one element of the bag;                            *)
(*  - an exception raised by a store call is an input of the step that     *)
(*    makes the call (the database may be locked or unreachable at any     *)
(*    call).                                                               *)
(***************************************************************************)
EXTENDS Bags, FiniteSets, Integers, Sequences, TLC

----------------------------------------------------------------------------
(* Bounds of the model *)

\* longest raw log list a device call returns
MaxBatch == 2
\* appends (direct or in a pull) stop at this many stored rows
MaxStored == 2
\* flows started in one behaviour
MaxCycles == 2
\* most lines in one response of a device
MaxLines == 3
\* scheduled jobs the service runs after its initial flows
MaxJobs == 2
\* direct store calls raise until this many connections were left open
MaxOpen == 2

----------------------------------------------------------------------------
(* Values *)

None == "<none>"

\* what an operation hands to its caller: a value, or an exception
Returns(value) == [raised |-> FALSE, value |-> value]

Raises == [raised |-> TRUE, value |-> None]

\* the instants of the clock; a behaviour starts at the first
Instants == 10..11

\* int(text): the texts that int() accepts, and their values
IntTexts == {"0", "1", "9", "10", "15"}

IntOf(s) ==
    CASE s = "0" -> 0
      [] s = "1" -> 1
      [] s = "9" -> 9
      [] s = "10" -> 10
      [] s = "15" -> 15

\* datetime.fromtimestamp(t).strftime('%Y-%m-%d %H:%M:%S'): fixed width,
\* most significant digit first
FormatTime(t) == <<t \div 10, t % 10>>

\* int(datetime.strptime(s, '%Y-%m-%d %H:%M:%S').timestamp())
ParseTime(s) == 10 * s[1] + s[2]

\* s < t as SQL compares two datetime texts of the same width
TextLess(s, t) == s[1] < t[1] \/ (s[1] = t[1] /\ s[2] < t[2])

----------------------------------------------------------------------------
(* The Noble database: terminalsa (the rows; the column active is state) *)

terminalsa ==
    << [terminalname |-> "Main", terminalid |-> "1001", ip |-> "10.0.0.1"],
       [terminalname |-> "Server", terminalid |-> "1002", ip |-> "10.0.0.2"],
       [terminalname |-> "Main", terminalid |-> "1003", ip |-> "10.0.0.3"] >>

Terminals == 1..Len(terminalsa)

\* the rows whose devices the direct store calls are made for
LogTerminals == {1, 2}

\* DeviceClient.__init__: the fields the engine reads
DeviceClient(row) ==
    [name |-> row.terminalname, terminalId |-> row.terminalid, ip |-> row.ip]

\* the raw logs a device may answer with, as _parseKeyValueResponse returns
\* them (one mapping per record; a missing field is None)
RawLogUniverse ==
    { [CreateTime |-> "9", CardNo |-> "C1", Type |-> "Entry", Method |-> "15",
       Status |-> "1", UserID |-> "U1", Door |-> "1"],
      [CreateTime |-> "9", CardNo |-> "C1", Type |-> "Alarm", Method |-> None,
       Status |-> "0", UserID |-> "U1", Door |-> "2"],
      [CreateTime |-> "9", CardNo |-> "C2", Type |-> "Exit", Method |-> "1",
       Status |-> "1", UserID |-> "U2", Door |-> "1"],
      [CreateTime |-> None, CardNo |-> "C1", Type |-> "Entry", Method |-> "1",
       Status |-> "1", UserID |-> "U1", Door |-> "1"],
      [CreateTime |-> "10", CardNo |-> "C2", Type |-> "Exit", Method |-> "x",
       Status |-> "1", UserID |-> "U2", Door |-> "1"] }

RECURSIVE SeqsUpTo(_, _)
SeqsUpTo(S, n) ==
    IF n = 0 THEN {<<>>}
    ELSE LET shorter == SeqsUpTo(S, n - 1)
         IN  shorter \cup {Append(b, x) : b \in shorter, x \in S}

\* the raw log lists of at most MaxBatch records
Batches == SeqsUpTo(RawLogUniverse, MaxBatch)

----------------------------------------------------------------------------
VARIABLES
    faceTemplates,  \* CMS table faceTemplates: the ledger rows, in id order
    active,         \* Noble table terminalsa: the column active, per row
    accesslogs,     \* Noble table accesslogs: a bag of rows
    syncLogs,       \* Noble table syncLogs: the audit rows, in id order
    now,            \* the clock (time.time(), datetime.now())
    deviceClients,  \* SyncManager.deviceClients
    pc,             \* the flow in progress: "idle", "push" or "pull"
    users,          \* syncUsersToDevices: the local users
    templates,      \* syncUsersToDevices: the local faceTemplates
    devIdx,         \* the position of the flow's loop over deviceClients
    totals,         \* syncUsersToDevices: totalUsersSynced, totalTemplatesSynced
    done,           \* how the last flow ended, and which flow it was
    visits,         \* syncLogsFromDevices: what each loop iteration of the
                    \* current (or last) pull flow did, in order
    cycles,         \* flows started so far, scheduled and manual
    acked,          \* the (template id, device name) pairs of the
                    \* enrollFaceTemplate calls that returned True so far
    faulted,        \* whether a store call has raised so far
    channel,        \* the last direct DeviceClient call: the operation, what
                    \* apiCall did, and what the operation returned
    running,        \* SyncManager.running
    worker,         \* where the service's worker thread is in start()
    main,           \* where the main thread is in start_sync_service()
    due,            \* the jobs run_pending found due and has not run yet
    seen,           \* the value of cycles when the worker reached its
                    \* current call of a flow
    connections,    \* the database connections the direct store calls
                    \* opened and did not close
    calls,          \* the device calls of the current push flow: the
                    \* (user number, device position) pairs of its enrollUser
                    \* calls and of those that returned True, the (template
                    \* id, device position) pairs of its enrollFaceTemplate
                    \* calls and of those that returned True
    lastPush,       \* the last push flow that completed: the ids of its
                    \* templates, the names of its devices in order, and
                    \* whether every enrollFaceTemplate call returned True
    received,       \* the (template id, terminal id) pairs of the
                    \* enrollFaceTemplate calls that returned True so far
    query,          \* the last direct getUnsyncedUsers call: the source
                    \* tables that existed, its window, and what it returned
    lastAppend      \* the last direct saveDeviceAccessLogs call: its terminal,
                    \* its logs, the positions of the logs whose INSERT
                    \* raised, how many logs mapped to a row, its result

schedVars == <<running, worker, main, due, seen>>

vars == <<faceTemplates, active, accesslogs, syncLogs, now, deviceClients, pc,
          users, templates, devIdx, totals, done, visits, cycles, acked,
          faulted, lastAppend, channel, running, worker, main, due, seen,
          connections, calls, lastPush, query, received>>

storeVars == <<faceTemplates, active, accesslogs, syncLogs>>
flowVars ==
    <<deviceClients, pc, users, templates, devIdx, totals, done, visits, cycles>>
histVars == <<acked, faulted>>

----------------------------------------------------------------------------
(* DatabaseManager.saveDeviceAccessLogs *)

\* lines 446-450: the datetime text of a raw log; None when int() raises
LogDatetime(log, nowT) ==
    IF log.CreateTime # None /\ log.CreateTime # ""
    THEN IF log.CreateTime \in IntTexts
         THEN FormatTime(IntOf(log.CreateTime))
         ELSE None
    ELSE FormatTime(nowT)

\* line 462
InOut(logType) ==
    IF logType = "Entry" THEN 1 ELSE IF logType = "Exit" THEN 2 ELSE 0

\* lines 464-465: int(log.get(field, 0)) raises on a text that is no number
IntFieldRaises(v) == v # None /\ v \notin IntTexts

IntField(v) == IF v = None THEN 0 ELSE IntOf(v)

\* lines 444-466: whether mapping the raw log raises (caught at line 501)
LogRaises(log, nowT) ==
    \/ LogDatetime(log, nowT) = None
    \/ IntFieldRaises(log.Method)
    \/ IntFieldRaises(log.Status)

\* lines 453-466, 482-496: the row built from a raw log
LogRow(deviceClient, log, nowT) ==
    [ cardid       |-> log.CardNo,
      datetime     |-> LogDatetime(log, nowT),
      terminalid   |-> deviceClient.terminalId,
      terminalip   |-> deviceClient.ip,
      doorid       |-> log.Door,
      in_out       |-> InOut(log.Type),
      verifysource |-> IntField(log.Method),
      verifystatus |-> IntField(log.Status),
      userid       |-> log.UserID ]

\* a dedup check that compares whole rows instead of the key columns
IsDuplicateRow(table, row) == row \in BagToSet(table)

\* a dedup check that compares the wrong column and so never matches
IsDuplicateWrongColumn(table, row) ==
    \E e \in BagToSet(table) :
        /\ e.terminalid = row.terminalip
        /\ e.datetime = row.datetime
        /\ e.cardid = row.cardid

\* lines 469-475: SELECT id FROM accesslogs WHERE terminalid = ? AND
\* datetime = ? AND cardid = ? finds a row (the rows inserted earlier in the
\* same call are seen: one connection)
IsDuplicate(table, row) ==
    \E e \in BagToSet(table) :
        /\ e.terminalid = row.terminalid
        /\ e.datetime = row.datetime
        /\ e.cardid = row.cardid

RECURSIVE SaveLoop(_, _, _, _, _)
SaveLoop(table, deviceClient, logs, nowT, savedCount) ==
    IF logs = <<>>
    THEN [table |-> table, savedCount |-> savedCount]
    ELSE LET log == Head(logs)
         IN  IF LogRaises(log, nowT)
             THEN SaveLoop(table, deviceClient, Tail(logs), nowT, savedCount)
             ELSE LET row == LogRow(deviceClient, log, nowT)
                  IN  IF IsDuplicate(table, row)
                      THEN SaveLoop(table, deviceClient, Tail(logs), nowT,
                                    savedCount)
                      ELSE SaveLoop(table (+) SetToBag({row}), deviceClient,
                                    Tail(logs), nowT, savedCount + 1)

\* a call that returns the length of the list instead of the rows inserted
SaveCountsAll(table, deviceClient, logs, nowT) ==
    [table |-> SaveLoop(table, deviceClient, logs, nowT, 0).table,
     savedCount |-> Len(logs)]

\* a call that counts every log it could map, the duplicates included
SaveCountsMapped(table, deviceClient, logs, nowT) ==
    LET Maps(log) == ~LogRaises(log, nowT)
    IN  [table |-> SaveLoop(table, deviceClient, logs, nowT, 0).table,
         savedCount |-> Len(SelectSeq(logs, Maps))]

\* the table after the call and the count returned
saveDeviceAccessLogs(table, deviceClient, logs, nowT) ==
    IF logs = <<>>
    THEN [table |-> table, savedCount |-> 0]
    ELSE SaveLoop(table, deviceClient, logs, nowT, 0)

\* lines 443-501 from log number i on, when the INSERT of the logs at the
\* positions insertFails raises (caught at line 500 like a mapping error)
RECURSIVE SaveLoopWith(_, _, _, _, _, _, _)
SaveLoopWith(table, deviceClient, logs, nowT, insertFails, i, savedCount) ==
    IF i > Len(logs)
    THEN [table |-> table, savedCount |-> savedCount]
    ELSE IF LogRaises(logs[i], nowT)
    THEN SaveLoopWith(table, deviceClient, logs, nowT, insertFails, i + 1,
                      savedCount)
    ELSE LET row == LogRow(deviceClient, logs[i], nowT)
         IN  IF IsDuplicate(table, row) \/ i \in insertFails
             THEN SaveLoopWith(table, deviceClient, logs, nowT, insertFails,
                               i + 1, savedCount)
             ELSE SaveLoopWith(table (+) SetToBag({row}), deviceClient, logs,
                               nowT, insertFails, i + 1, savedCount + 1)

\* a loop that ends at the first log that cannot be mapped or inserted
SaveStopsAtFailure(table, deviceClient, logs, nowT, insertFails) ==
    LET bad == {i \in 1..Len(logs) :
                   LogRaises(logs[i], nowT) \/ i \in insertFails}
        stop == IF bad = {} THEN Len(logs)
                ELSE (CHOOSE i \in bad : \A k \in bad : i <= k) - 1
    IN  SaveLoopWith(table, deviceClient, SubSeq(logs, 1, stop), nowT, {}, 1, 0)

\* lines 434-506: the table after the call and the count returned, when
\* the INSERT of the logs at the positions insertFails raises
saveDeviceAccessLogsWith(table, deviceClient, logs, nowT, insertFails) ==
    SaveLoopWith(table, deviceClient, logs, nowT, insertFails, 1, 0)

----------------------------------------------------------------------------
(* DatabaseManager.getLastSyncedLogTime *)

\* a query without the WHERE clause: the maximum over all terminals
MaxDatetimeAnyTerminal(table, terminalId) ==
    LET texts == {e.datetime : e \in BagToSet(table)}
    IN  IF texts = {} THEN None
        ELSE CHOOSE m \in texts : \A t \in texts : ~TextLess(m, t)

\* a query that selects MIN(datetime) instead
MinDatetime(table, terminalId) ==
    LET texts == {e.datetime : e \in {x \in BagToSet(table) :
                                        x.terminalid = terminalId}}
    IN  IF texts = {} THEN None
        ELSE CHOOSE m \in texts : \A t \in texts : ~TextLess(t, m)

\* SELECT MAX(datetime) FROM accesslogs WHERE terminalid = ?
MaxDatetime(table, terminalId) ==
    LET texts == {e.datetime : e \in {x \in BagToSet(table) :
                                        x.terminalid = terminalId}}
    IN  IF texts = {} THEN None
        ELSE CHOOSE m \in texts : \A t \in texts : ~TextLess(m, t)

\* <<>> for None, <<t>> for the instant t
getLastSyncedLogTime(table, terminalId) ==
    LET result == MaxDatetime(table, terminalId)
    IN  IF result = None THEN <<>> ELSE <<ParseTime(result)>>

\* a <= b, None below every instant
TimeLeq(a, b) == a = <<>> \/ (b # <<>> /\ a[1] <= b[1])

----------------------------------------------------------------------------
(* The CMS database: the source tables (fixed) *)

\* table student; registration_date is a text
student ==
    << [matrix_no |-> "7", name |-> "Alice",
        registration_date |-> <<"2", "0", "0", "2", "-", "0", "1">>],
       [matrix_no |-> "8", name |-> "Bob",
        registration_date |-> <<"N", "/", "A">>],
       [matrix_no |-> "9", name |-> "Dave",
        registration_date |-> <<"1", "9", "9", "9", "-", "0", "5">>] >>

\* table new_employee; id is the row's number, read through str()
new_employee ==
    << [id |-> "7", name |-> "Carol", empid |-> "E7",
        app_date |-> <<" ", "2", "0", "0", "4", "-", "0", "3">>] >>

\* the photo tables that exist, by name (prefix, year), and their rows
PicTables ==
    { [name |-> <<"student_pic", <<"2", "0", "0", "2">>>>,
       rows |-> {[key |-> "7", pic_contents |-> "photo-s7"]}],
      [name |-> <<"new_employee_pic", <<"2", "0", "0", "4">>>>,
       rows |-> {[key |-> "E7", pic_contents |-> "photo-e7"]}] }

DigitChars == {"0", "1", "2", "3", "4", "5", "6", "7", "8", "9"}

\* str.strip() on a text
RECURSIVE LStrip(_)
LStrip(t) == IF t # <<>> /\ Head(t) = " " THEN LStrip(Tail(t)) ELSE t

RECURSIVE RStrip(_)
RStrip(t) ==
    IF t # <<>> /\ t[Len(t)] = " " THEN RStrip(SubSeq(t, 1, Len(t) - 1)) ELSE t

Strip(t) == RStrip(LStrip(t))

\* t[:4]
FirstFour(t) == SubSeq(t, 1, IF Len(t) < 4 THEN Len(t) ELSE 4)

\* str.isdigit()
IsDigit(t) == t # <<>> /\ \A i \in 1..Len(t) : t[i] \in DigitChars

\* DatabaseManager.getUnsyncedUsers with no window: the students, then the
\* employees
StudentUser(row) ==
    [id |-> row.matrix_no, name |-> row.name, role |-> "student",
     cardNumber |-> row.matrix_no, registrationDate |-> row.registration_date]

EmployeeUser(row) ==
    [id |-> row.id, name |-> row.name, role |-> "employee",
     cardNumber |-> row.empid, registrationDate |-> row.app_date]

getUnsyncedUsers ==
    [i \in 1..Len(student) |-> StudentUser(student[i])]
        \o [i \in 1..Len(new_employee) |-> EmployeeUser(new_employee[i])]

\* the code points of the characters the date texts are made of
CharCode(c) ==
    CASE c = " " -> 32 [] c = "-" -> 45 [] c = "/" -> 47
      [] c = "0" -> 48 [] c = "1" -> 49 [] c = "2" -> 50 [] c = "3" -> 51
      [] c = "4" -> 52 [] c = "5" -> 53 [] c = "6" -> 54 [] c = "7" -> 55
      [] c = "8" -> 56 [] c = "9" -> 57 [] c = "A" -> 65 [] c = "N" -> 78

\* s <= t as SQL compares two texts: character by character, a proper
\* prefix below the longer text
RECURSIVE TextLeq(_, _)
TextLeq(s, t) ==
    IF s = <<>> THEN TRUE
    ELSE IF t = <<>> THEN FALSE
    ELSE IF s[1] = t[1] THEN TextLeq(Tail(s), Tail(t))
    ELSE CharCode(s[1]) < CharCode(t[1])

DigitChar(d) ==
    CASE d = 0 -> "0" [] d = 1 -> "1" [] d = 2 -> "2" [] d = 3 -> "3"
      [] d = 4 -> "4" [] d = 5 -> "5" [] d = 6 -> "6" [] d = 7 -> "7"
      [] d = 8 -> "8" [] d = 9 -> "9"

\* the instants a window is made of: the first second of a year, named by
\* the year
WindowTimes == {1998, 2000, 2001, 2003, 2005}

\* datetime.fromtimestamp(t).strftime('%Y-%m-%d') for such an instant
FormatDate(t) ==
    <<DigitChar(t \div 1000), DigitChar((t \div 100) % 10),
      DigitChar((t \div 10) % 10), DigitChar(t % 10),
      "-", "0", "1", "-", "0", "1">>

\* the names of the two source tables
SourceTables == {"student", "new_employee"}

\* A bound of the window is <<>> when it is left out (None) and <<t>> for
\* the instant t.

\* lines 200-215: the student rows the SELECT returns
StudentRows(startTime, endTime) ==
    LET Between(row) ==
            /\ TextLeq(FormatDate(startTime[1]), row.registration_date)
            /\ TextLeq(row.registration_date, FormatDate(endTime[1]))
        FromStart(row) ==
            TextLeq(FormatDate(startTime[1]), row.registration_date)
    IN  IF startTime # <<>> /\ endTime # <<>>
        THEN SelectSeq(student, Between)
        ELSE IF startTime # <<>>
        THEN SelectSeq(student, FromStart)
        ELSE student

\* lines 243-252: the employee rows the SELECT returns
EmployeeRows(startTime, endTime) ==
    LET Between(row) ==
            /\ TextLeq(FormatDate(startTime[1]), row.app_date)
            /\ TextLeq(row.app_date, FormatDate(endTime[1]))
    IN  IF startTime # <<>> /\ endTime # <<>>
        THEN SelectSeq(new_employee, Between)
        ELSE new_employee

\* lines 198-237: the users the first try block adds; the SELECT raises
\* when the table does not exist and the except swallows it
StudentPart(tables, startTime, endTime) ==
    IF "student" \in tables
    THEN LET rows == StudentRows(startTime, endTime)
         IN  [i \in 1..Len(rows) |-> StudentUser(rows[i])]
    ELSE <<>>

\* lines 240-273: the users the second try block adds
EmployeePart(tables, startTime, endTime) ==
    IF "new_employee" \in tables
    THEN LET rows == EmployeeRows(startTime, endTime)
         IN  [i \in 1..Len(rows) |-> EmployeeUser(rows[i])]
    ELSE <<>>

\* one try block around both SELECTs: a missing student table ends the
\* listing before the employees are read
UsersInOneTry(tables, startTime, endTime) ==
    IF "student" \in tables
    THEN Returns(StudentPart(tables, startTime, endTime)
                     \o EmployeePart(tables, startTime, endTime))
    ELSE Returns(<<>>)

\* DatabaseManager.getUnsyncedUsers(startTime, endTime) when the source
\* tables named exist: what the call returns
getUnsyncedUsersOf(tables, startTime, endTime) ==
    Returns(StudentPart(tables, startTime, endTime)
                \o EmployeePart(tables, startTime, endTime))

----------------------------------------------------------------------------
(* DatabaseManager.getUnsyncedFaceTemplates *)

\* the year read from the first four characters of the text as it is stored
UserYearNoStrip(user) ==
    LET year == FirstFour(user.registrationDate)
    IN  IF IsDigit(year) THEN year ELSE None

\* lines 296-302: the year of a user, None when the user is skipped
UserYear(user) ==
    LET year == FirstFour(Strip(user.registrationDate))
    IN  IF IsDigit(year) THEN year ELSE None

\* lines 307-312
PicTableName(user, year) ==
    IF user.role = "student" THEN <<"student_pic", year>>
    ELSE <<"new_employee_pic", year>>

\* lines 314-328: the photo of a user, None when the table is missing, the
\* user has no row in it, or the row holds no photo
PhotoData(user) ==
    LET year == UserYear(user)
        tables == {t \in PicTables : t.name = PicTableName(user, year)}
    IN  IF year = None \/ tables = {} THEN None
        ELSE LET rows == {r \in (CHOOSE t \in tables : TRUE).rows :
                            r.key = user.cardNumber}
             IN  IF rows = {} THEN None
                 ELSE LET pic == (CHOOSE r \in rows : TRUE).pic_contents
                      IN  IF pic = "" THEN None ELSE pic

\* a lookup of the ledger row by userId alone
LedgerRowByUserId(ledger, user) ==
    {i \in 1..Len(ledger) : ledger[i].userId = user.id}

\* a SELECT that finds no row
LedgerRowNone(ledger, user) == {}

\* lines 333-338: SELECT id, syncedDevices FROM faceTemplates WHERE
\* userId = ? AND userType = ?  (the positions of the rows found)
LedgerRow(ledger, user) ==
    {i \in 1..Len(ledger) :
        ledger[i].userId = user.id /\ ledger[i].userType = user.role}

\* lines 352-357: the row inserted for a user; id is the next row number
NewLedgerRow(ledger, user) ==
    [id |-> Len(ledger) + 1, userId |-> user.id, userType |-> user.role,
     tableYear |-> UserYear(user), syncedDevices |-> <<>>]

\* lines 366-374
TemplateOf(user, photo, id, syncedDevices) ==
    [id |-> id, userId |-> user.id, userName |-> user.name,
     photoData |-> photo, enrollmentDate |-> user.registrationDate,
     syncedDevices |-> syncedDevices]

\* lines 291-330 for each user of getUnsyncedUsers: the photo found, or None
\* when the user is skipped
Photos == [i \in 1..Len(getUnsyncedUsers) |-> PhotoData(getUnsyncedUsers[i])]

\* lines 291-374 from user number i on; failAt is the number of the user at
\* whose ledger statements (lines 333-357) the store raises, 0 for none
RECURSIVE TemplatesLoop(_, _, _, _, _)
TemplatesLoop(ledger, all_users, i, failAt, out) ==
    IF i > Len(all_users)
    THEN [ledger |-> ledger, templates |-> out, raised |-> FALSE]
    ELSE LET user == all_users[i]
         IN  IF Photos[i] = None
             THEN TemplatesLoop(ledger, all_users, i + 1, failAt, out)
             ELSE IF failAt = i
             THEN [ledger |-> ledger, templates |-> <<>>, raised |-> TRUE]
             ELSE LET found == LedgerRow(ledger, user)
                  IN  IF found # {}
                      THEN LET row == ledger[CHOOSE k \in found :
                                              \A m \in found : k <= m]
                           IN  TemplatesLoop(ledger, all_users, i + 1, failAt,
                                   Append(out, TemplateOf(user, Photos[i],
                                              row.id, row.syncedDevices)))
                      ELSE LET row == NewLedgerRow(ledger, user)
                           IN  TemplatesLoop(Append(ledger, row), all_users,
                                   i + 1, failAt,
                                   Append(out, TemplateOf(user, Photos[i],
                                                          row.id, <<>>)))

\* the ledger after the call, the list returned, and whether the call raised
getUnsyncedFaceTemplates(ledger, failAt) ==
    TemplatesLoop(ledger, getUnsyncedUsers, 1, failAt, <<>>)

----------------------------------------------------------------------------
(* DatabaseManager.markFaceTemplateSynced *)

\* a write that replaces the list by the one name
MarkedOverwrite(syncedDevices, deviceName) == <<deviceName>>

\* a write that appends without the membership test
MarkedAlways(syncedDevices, deviceName) == Append(syncedDevices, deviceName)

\* lines 420-422: the list written back
Marked(syncedDevices, deviceName) ==
    IF \E i \in 1..Len(syncedDevices) : syncedDevices[i] = deviceName
    THEN syncedDevices
    ELSE Append(syncedDevices, deviceName)

\* a call that writes the one name over the row's list
MarkResetsRow(ledger, templateId, deviceName) ==
    [i \in 1..Len(ledger) |->
        IF ledger[i].id = templateId
        THEN [ledger[i] EXCEPT !.syncedDevices = <<deviceName>>]
        ELSE ledger[i]]

\* an update that records nothing
MarkForgets(ledger, templateId, deviceName) == ledger

\* the ledger after the call
markFaceTemplateSynced(ledger, templateId, deviceName) ==
    [i \in 1..Len(ledger) |->
        IF ledger[i].id = templateId
        THEN [ledger[i] EXCEPT
                 !.syncedDevices = Marked(ledger[i].syncedDevices, deviceName)]
        ELSE ledger[i]]

----------------------------------------------------------------------------
(* DatabaseManager.getDevices, DatabaseManager.logSyncOperation *)

\* the rows with active = '1', as device clients (SyncManager.refreshDevices)
RECURSIVE ActiveFrom(_, _)
ActiveFrom(flags, i) ==
    IF i > Len(terminalsa) THEN <<>>
    ELSE IF flags[i]
         THEN <<DeviceClient(terminalsa[i])>> \o ActiveFrom(flags, i + 1)
         ELSE ActiveFrom(flags, i + 1)

getDevices(flags) == ActiveFrom(flags, 1)

\* a refresh that keeps the list the manager already holds
RefreshDevicesCached(flags) ==
    IF deviceClients # <<>> THEN deviceClients ELSE getDevices(flags)

\* SyncManager.refreshDevices: the new value of deviceClients
refreshDevices(flags) == getDevices(flags)

\* an insert that writes over the newest row of the table
LogReplacesLast(table, syncType, deviceName, recordsSynced, status, errorMessage, nowT) ==
    IF table = <<>>
    THEN <<[syncType |-> syncType, deviceName |-> deviceName,
            recordsSynced |-> recordsSynced, status |-> status,
            errorMessage |-> errorMessage, timestamp |-> nowT]>>
    ELSE [table EXCEPT ![Len(table)] =
             [syncType |-> syncType, deviceName |-> deviceName,
              recordsSynced |-> recordsSynced, status |-> status,
              errorMessage |-> errorMessage, timestamp |-> nowT]]

\* the audit table after the insert
logSyncOperation(table, syncType, deviceName, recordsSynced, status, errorMessage, nowT) ==
    Append(table, [syncType |-> syncType, deviceName |-> deviceName,
                   recordsSynced |-> recordsSynced, status |-> status,
                   errorMessage |-> errorMessage, timestamp |-> nowT])

----------------------------------------------------------------------------
(* DeviceClient._parseKeyValueResponse *)

\* A line of a response is a sequence of tokens: the word "records", the
\* punctuation, digits, and short words standing for field names and values.

DigitTokens == {"0", "1", "5"}

DigitValue(d) == CASE d = "0" -> 0 [] d = "1" -> 1 [] d = "5" -> 5

\* text.find(token) counted from 1; 0 when the token is not in the text
RECURSIVE FindFrom(_, _, _)
FindFrom(text, token, i) ==
    IF i > Len(text) THEN 0
    ELSE IF text[i] = token THEN i ELSE FindFrom(text, token, i + 1)

Find(text, token) == FindFrom(text, token, 1)

\* text.split(token, 1): the part before the first token and the part after
SplitFirst(text, token) ==
    LET at == Find(text, token)
    IN  <<SubSeq(text, 1, at - 1), SubSeq(text, at + 1, Len(text))>>

\* line 850: key.startswith('records[') and '].' in key
KeyStartsAndCloses(key) ==
    /\ Len(key) >= 2 /\ key[1] = "records" /\ key[2] = "["
    /\ \E i \in 1..(Len(key) - 1) : key[i] = "]" /\ key[i + 1] = "."

\* lines 852-853: key[key.find('[') + 1 : key.find(']')]
IndexText(key) == SubSeq(key, Find(key, "[") + 1, Find(key, "]") - 1)

\* whether int() accepts the text
IsIntText(text) ==
    text # <<>> /\ \A i \in 1..Len(text) : text[i] \in DigitTokens

\* int(text) for a text of digits
RECURSIVE IntValue(_)
IntValue(text) ==
    IF text = <<>> THEN 0
    ELSE 10 * IntValue(SubSeq(text, 1, Len(text) - 1))
             + DigitValue(text[Len(text)])

\* line 855: key.split('.', 1)[1]
FieldName(key) == SplitFirst(key, ".")[2]

\* line 862: records[record_idx][field_name] = value, on a mapping held as
\* the set of its (field, value) pairs
SetField(fields, name, value) ==
    {f \in fields : f[1] # name} \cup {<<name, value>>}

\* lines 848-862 from line number i on. records holds the buckets in the
\* order of their creation, each with its index
RECURSIVE ParseLines(_, _, _)
ParseLines(lines, i, records) ==
    IF i > Len(lines) THEN [raised |-> FALSE, records |-> records]
    ELSE IF Find(lines[i], "=") = 0 THEN ParseLines(lines, i + 1, records)
    ELSE LET key == SplitFirst(lines[i], "=")[1]
             value == SplitFirst(lines[i], "=")[2]
         IN  IF ~KeyStartsAndCloses(key)
             THEN ParseLines(lines, i + 1, records)
             ELSE IF ~IsIntText(IndexText(key))
             THEN [raised |-> TRUE, records |-> <<>>]
             ELSE LET record_idx == IntValue(IndexText(key))
                      at == {k \in 1..Len(records) :
                                records[k].idx = record_idx}
                      with == IF at = {}
                              THEN Append(records, [idx |-> record_idx,
                                                    fields |-> {}])
                              ELSE records
                      k == CHOOSE k \in 1..Len(with) :
                               with[k].idx = record_idx
                  IN  ParseLines(lines, i + 1,
                          [with EXCEPT ![k].fields =
                              SetField(@, FieldName(key), value)])

\* lines 842-868: whether the call raises, and list(records.values())
_parseKeyValueResponse(response) ==
    LET r == ParseLines(response, 1, <<>>)
    IN  [raised |-> r.raised,
         records |-> [k \in 1..Len(r.records) |-> r.records[k].fields]]

----------------------------------------------------------------------------
(* DeviceClient: the direct operations *)

\* The lines a device may send: fields of records 0, 5 and 10, a value that
\* contains '=', a summary counter, a line without '=', an index that is
\* not a number, and a key with text between the index and the "].".
Lines ==
    { <<"records", "[", "0", "]", ".", "CardNo", "=", "C1">>,
      <<"records", "[", "5", "]", ".", "CardNo", "=", "C2">>,
      <<"records", "[", "0", "]", ".", "Type", "=", "E", "=", "x">>,
      <<"records", "[", "0", "]", ".", "CardNo", "=", "C9">>,
      <<"records", "[", "1", "0", "]", ".", "Type", "=", "E">>,
      <<"found", "=", "1">>,
      <<"junk">>,
      <<"records", "[", "x", "]", ".", "CardNo", "=", "C1">>,
      <<"records", "[", "0", "]", "x", "]", ".", "CardNo", "=", "C3">> }

\* a response text is the sequence of its lines; the empty text has none
Responses == UNION {[1..n -> Lines] : n \in 0..MaxLines}

\* What apiCall does: it raises, it returns None, or it returns a text.
ApiOutcome(kind, text) == [kind |-> kind, text |-> text]

ApiOutcomes(texts) ==
    {ApiOutcome("raise", <<>>), ApiOutcome("none", <<>>)}
        \cup {ApiOutcome("text", t) : t \in texts}

\* the truth value Python gives a response: None and '' are false
Truthy(outcome) == outcome.kind = "text" /\ outcome.text # <<>>

\* an enrollment whose transport call is made outside the try block
EnrollUserUnguarded(outcome) ==
    IF outcome.kind = "raise" THEN Raises
    ELSE IF Truthy(outcome) THEN Returns(TRUE) ELSE Returns(FALSE)

\* lines 679-723: the whole body is inside try; except returns False
enrollUser(outcome) ==
    IF outcome.kind = "raise" THEN Returns(FALSE)
    ELSE IF Truthy(outcome) THEN Returns(TRUE) ELSE Returns(FALSE)

\* lines 725-754: the same structure
enrollFaceTemplate(outcome) ==
    IF outcome.kind = "raise" THEN Returns(FALSE)
    ELSE IF Truthy(outcome) THEN Returns(TRUE) ELSE Returns(FALSE)

\* lines 756-786: a truthy response is parsed; a parser exception is caught
\* by the same except clause as a transport exception
getOfflineAccessLogs(outcome) ==
    IF outcome.kind = "raise" THEN Returns(<<>>)
    ELSE IF Truthy(outcome)
         THEN LET logs == _parseKeyValueResponse(outcome.text)
              IN  IF logs.raised THEN Returns(<<>>)
                  ELSE Returns(logs.records)
         ELSE Returns(<<>>)

----------------------------------------------------------------------------
\* no device call was made yet
NoCalls ==
    [enrollUser |-> {}, userOk |-> {}, enrollFaceTemplate |-> {},
     templateOk |-> {}]

----------------------------------------------------------------------------
\* The flows one behaviour may start: MaxCycles of them, and MaxJobs more
\* once the service was started (its two initial flows, then its jobs).
FlowBound == IF main = "cli" THEN MaxCycles ELSE MaxCycles + MaxJobs

----------------------------------------------------------------------------
Init ==
    /\ faceTemplates = <<>>
    /\ active = <<TRUE, TRUE, FALSE>>
    /\ accesslogs = EmptyBag
    /\ syncLogs = <<>>
    /\ now = CHOOSE t \in Instants : \A u \in Instants : t <= u
    /\ deviceClients = <<>>
    /\ pc = "idle"
    /\ users = <<>>
    /\ templates = <<>>
    /\ devIdx = 0
    /\ totals = [users |-> 0, templates |-> 0]
    /\ done = [flow |-> None, outcome |-> None]
    /\ visits = <<>>
    /\ cycles = 0
    /\ acked = {}
    /\ faulted = FALSE
    /\ lastAppend = [terminalId |-> None, logs |-> <<>>, failed |-> {},
                     offered |-> 0,
                     mapped |-> 0,
                     savedCount |-> 0]
    /\ channel = [op |-> None, outcome |-> ApiOutcome("none", <<>>),
                  result |-> Returns(None)]
    /\ running = FALSE
    /\ worker = "off"
    /\ main = "cli"
    /\ due = <<>>
    /\ seen = 0
    /\ connections = 0
    /\ calls = NoCalls
    /\ lastPush = [templates |-> {}, devices |-> <<>>, allAcked |-> FALSE]
    /\ received = {}
    /\ query = [tables |-> {}, startTime |-> <<>>, endTime |-> <<>>,
                result |-> Returns(None)]

\* a second passes
Tick ==
    /\ now + 1 \in Instants
    /\ now' = now + 1
    /\ UNCHANGED <<storeVars, flowVars, histVars, lastAppend, channel,
                   schedVars, connections, calls, lastPush, query, received>>

\* a direct call saveDeviceAccessLogs(deviceClient, logs)
CallAppend(d, logs) ==
    LET dc == DeviceClient(terminalsa[d])
        r  == saveDeviceAccessLogs(accesslogs, dc, logs, now)
        Maps(log) == ~LogRaises(log, now)
    IN  /\ BagCardinality(r.table) <= MaxStored
        /\ accesslogs' = r.table
        /\ lastAppend' = [terminalId |-> dc.terminalId,
                          logs |-> logs, failed |-> {},
                          offered |-> Len(logs),
                          mapped |-> Len(SelectSeq(logs, Maps)),
                          savedCount |-> r.savedCount]
        /\ UNCHANGED <<faceTemplates, active, syncLogs, now, flowVars, histVars,
                       channel, schedVars, connections, calls, lastPush, query,
                       received>>

----------------------------------------------------------------------------
(* SyncManager.syncUsersToDevices *)

Contains(list, x) == \E i \in 1..Len(list) : list[i] = x

\* a loop that leaves the users out after the first flow
UsersToEnrollFirstFlow(us) == IF cycles > 1 THEN {} ELSE 1..Len(us)

\* line 948: for user in users, by position in the list
UsersToEnroll(us) == 1..Len(us)

\* a test that lets every template through
NotYetSyncedAlways(template, name) == TRUE

\* line 955: deviceClient.name not in template["syncedDevices"]
NotYetSynced(template, name) == ~Contains(template.syncedDevices, name)

\* lines 953-958 from template number i on, for the device named name.
\* tAcks: the templates for which enrollFaceTemplate returns True; failAt: the
\* template at whose markFaceTemplateSynced call the store raises, 0 for none
RECURSIVE EnrollTemplates(_, _, _, _, _, _, _)
EnrollTemplates(ledger, faceTpls, name, tAcks, failAt, i, out) ==
    IF i > Len(faceTpls)
    THEN [ledger |-> ledger, templatesSynced |-> out.n, acks |-> out.acks,
          tried |-> out.tried, raised |-> FALSE]
    ELSE LET template == faceTpls[i]
         IN  IF ~NotYetSynced(template, name)
             THEN EnrollTemplates(ledger, faceTpls, name, tAcks, failAt,
                                  i + 1, out)
             ELSE IF i \notin tAcks
             THEN EnrollTemplates(ledger, faceTpls, name, tAcks, failAt,
                      i + 1, [out EXCEPT !.tried = @ \cup {template.id}])
             ELSE IF failAt = i
             THEN [ledger |-> ledger, templatesSynced |-> out.n,
                   acks |-> out.acks \cup {<<template.id, name>>},
                   tried |-> out.tried \cup {template.id},
                   raised |-> TRUE]
             ELSE EnrollTemplates(
                      markFaceTemplateSynced(ledger, template.id, name),
                      faceTpls, name, tAcks, failAt, i + 1,
                      [n |-> out.n + 1,
                       acks |-> out.acks \cup {<<template.id, name>>},
                       tried |-> out.tried \cup {template.id}])

\* a count that leaves the templates out
RecordsSyncedUsersOnly(t) == t.users

\* line 969: totalUsersSynced + totalTemplatesSynced
RecordsSynced(t) == t.users + t.templates

ResetLocals ==
    /\ pc' = "idle"
    /\ users' = <<>>
    /\ templates' = <<>>
    /\ devIdx' = 0
    /\ totals' = [users |-> 0, templates |-> 0]
    /\ calls' = NoCalls

\* lines 975-984: the handler, after the try block left the ledger as given;
\* hf: the handler's own logSyncOperation call raises
PushHandler(ledger, hf) ==
    /\ faceTemplates' = ledger
    /\ syncLogs' = IF hf THEN syncLogs
                   ELSE logSyncOperation(syncLogs, "users_to_devices", None, 0,
                                         "error", "exception text", now)
    /\ done' = [flow |-> "push", outcome |-> IF hf THEN "escaped" ELSE "caught"]
    /\ faulted' = TRUE
    /\ ResetLocals

\* where the store may raise in lines 933-940
PushStartFaults ==
    {[at |-> "users", user |-> 0], [at |-> "devices", user |-> 0]}
        \cup {[at |-> "templates", user |-> k] : k \in 0..Len(getUnsyncedUsers)}

\* a flow that lists the templates of the users of its window only
TemplatesOfWindow(ledger, startTime, endTime) ==
    LET r == getUnsyncedFaceTemplates(ledger, 0)
        inWindow == getUnsyncedUsersOf(SourceTables, startTime, endTime).value
        Listed(template) ==
            \E i \in 1..Len(inWindow) :
                /\ inWindow[i].id = template.userId
                /\ inWindow[i].name = template.userName
    IN  [r EXCEPT !.templates = SelectSeq(r.templates, Listed)]

\* line 934: getUnsyncedFaceTemplates() is called without the window of the
\* flow, and lists the users itself with no window (line 289)
TemplatesOfFlow(ledger, startTime, endTime) ==
    getUnsyncedFaceTemplates(ledger, 0)

\* lines 929-940: the flow starts with the window (startTime, endTime); it
\* loads the users and the templates and refreshes the device list
PushStart(startTime, endTime) ==
    LET r == TemplatesOfFlow(faceTemplates, startTime, endTime)
    IN  /\ pc = "idle"
        /\ cycles < FlowBound
        /\ cycles' = cycles + 1
        /\ users' = getUnsyncedUsersOf(SourceTables, startTime, endTime).value
        /\ templates' = r.templates
        /\ faceTemplates' = r.ledger
        /\ deviceClients' = refreshDevices(active)
        /\ pc' = "push"
        /\ devIdx' = 1
        /\ totals' = [users |-> 0, templates |-> 0]
        /\ calls' = NoCalls
        /\ done' = [flow |-> "push", outcome |-> None]
        /\ UNCHANGED <<active, accesslogs, syncLogs, now, visits, histVars,
                       lastAppend, channel, schedVars, connections, lastPush, query,
                       received>>

\* the flow as the scheduler and the service start it: with no window
PushStartOk == PushStart(<<>>, <<>>)

\* lines 929-940 and 975-984: one of the store calls raises
PushStartRaise(fault, hf) ==
    LET r == getUnsyncedFaceTemplates(faceTemplates, fault.user)
    IN  /\ pc = "idle"
        /\ cycles < FlowBound
        /\ cycles' = cycles + 1
        /\ (fault.at = "templates" /\ fault.user > 0) => r.raised
        /\ PushHandler(IF fault.at = "users"
                          \/ (fault.at = "templates" /\ fault.user = 0)
                       THEN faceTemplates ELSE r.ledger, hf)
        /\ UNCHANGED <<active, accesslogs, now, deviceClients, visits, acked,
                       lastAppend, channel, schedVars, connections, lastPush, query,
                       received>>

\* lines 943-963: the loop body for the device at devIdx
PushDevice(uAcks, tAcks, failAt, hf) ==
    LET dc == deviceClients[devIdx]
        r == EnrollTemplates(faceTemplates, templates, dc.name, tAcks, failAt,
                             1, [n |-> 0, acks |-> {}, tried |-> {}])
    IN  /\ pc = "push"
        /\ devIdx <= Len(deviceClients)
        /\ acked' = acked \cup r.acks
        /\ received' = received \cup {<<a[1], dc.terminalId>> : a \in r.acks}
        /\ IF r.raised
           THEN /\ PushHandler(r.ledger, hf)
                /\ UNCHANGED <<active, accesslogs, now, deviceClients, visits,
                               cycles, lastAppend, channel, schedVars,
                               connections, lastPush, query>>
           ELSE /\ failAt = 0
                /\ ~hf
                /\ faceTemplates' = r.ledger
                /\ totals' = [users |-> totals.users + Cardinality(uAcks),
                              templates |-> totals.templates + r.templatesSynced]
                /\ calls' =
                       [enrollUser |-> calls.enrollUser
                            \cup {<<u, devIdx>> : u \in UsersToEnroll(users)},
                        userOk |-> calls.userOk
                            \cup {<<u, devIdx>> : u \in uAcks},
                        enrollFaceTemplate |-> calls.enrollFaceTemplate
                            \cup {<<t, devIdx>> : t \in r.tried},
                        templateOk |-> calls.templateOk
                            \cup {<<a[1], devIdx>> : a \in r.acks}]
                /\ devIdx' = devIdx + 1
                /\ UNCHANGED <<active, accesslogs, syncLogs, now, deviceClients,
                               pc, users, templates, done, visits, cycles,
                               faulted, lastAppend, channel, schedVars,
                               connections, lastPush, query>>

\* lines 965-973: the loop is over; the success row is written
PushFinishOk ==
    /\ pc = "push"
    /\ devIdx > Len(deviceClients)
    /\ syncLogs' = logSyncOperation(syncLogs, "users_to_devices", None,
                                    RecordsSynced(totals), "success", None,
                                    now)
    /\ done' = [flow |-> "push", outcome |-> "ok"]
    /\ lastPush' =
           [templates |-> {templates[i].id : i \in 1..Len(templates)},
            devices |-> [i \in 1..Len(deviceClients) |-> deviceClients[i].name],
            allAcked |-> calls.enrollFaceTemplate = calls.templateOk]
    /\ ResetLocals
    /\ UNCHANGED <<faceTemplates, active, accesslogs, now, deviceClients, visits,
                   cycles, histVars, lastAppend, channel, schedVars,
                   connections, query, received>>

\* lines 965-984: the success row's logSyncOperation call raises
PushFinishRaise(hf) ==
    /\ pc = "push"
    /\ devIdx > Len(deviceClients)
    /\ PushHandler(faceTemplates, hf)
    /\ UNCHANGED <<active, accesslogs, now, deviceClients, visits, cycles,
                   acked, lastAppend, channel, schedVars, connections, lastPush, query,
                   received>>

----------------------------------------------------------------------------
(* BridgeCLI.manual_sync_users with a device name *)

\* lines 1205-1208 from template number i on
RECURSIVE ManualTemplates(_, _, _, _, _, _, _)
ManualTemplates(ledger, faceTpls, name, tAcks, failAt, i, acks) ==
    IF i > Len(faceTpls)
    THEN [ledger |-> ledger, acks |-> acks, raised |-> FALSE]
    ELSE LET template == faceTpls[i]
             got == IF i \in tAcks THEN acks \cup {<<template.id, name>>}
                    ELSE acks
         IN  IF Contains(template.syncedDevices, name)
             THEN ManualTemplates(ledger, faceTpls, name, tAcks, failAt, i + 1,
                                  acks)
             ELSE IF failAt = i
             THEN [ledger |-> ledger, acks |-> got, raised |-> TRUE]
             ELSE ManualTemplates(
                      markFaceTemplateSynced(ledger, template.id, name),
                      faceTpls, name, tAcks, failAt, i + 1, got)

\* the names a manual push may be given: each device's, and one of no device
DeviceNames == {terminalsa[i].terminalname : i \in Terminals} \cup {"Nowhere"}

\* lines 1193-1212; nothing in them catches an exception
ManualPush(deviceName, tAcks, failAt) ==
    LET clients == getDevices(active)
        found == {i \in 1..Len(clients) : clients[i].name = deviceName}
        t == getUnsyncedFaceTemplates(faceTemplates, 0)
        r == ManualTemplates(t.ledger, t.templates, deviceName, tAcks, failAt,
                             1, {})
    IN  /\ pc = "idle"
        /\ cycles < FlowBound
        /\ cycles' = cycles + 1
        /\ deviceClients' = clients
        /\ IF found = {}
           THEN /\ tAcks = {}
                /\ failAt = 0
                /\ done' = [flow |-> "manual", outcome |-> "not found"]
                /\ UNCHANGED <<faceTemplates, histVars, received>>
           ELSE /\ failAt > 0 => r.raised
                /\ faceTemplates' = r.ledger
                /\ acked' = acked \cup r.acks
                /\ received' = received \cup
                       {<<a[1], clients[CHOOSE i \in found :
                                           \A j \in found : i <= j].terminalId>> :
                            a \in r.acks}
                /\ faulted' = (faulted \/ r.raised)
                /\ done' = [flow |-> "manual",
                            outcome |-> IF r.raised THEN "escaped" ELSE "ok"]
        /\ UNCHANGED <<active, accesslogs, syncLogs, now, pc, users, templates,
                       devIdx, totals, visits, lastAppend, channel, schedVars,
                       connections, calls, lastPush, query>>

\* an operator switches a terminal on or off between two flows
ToggleActive(d) ==
    /\ pc = "idle"
    /\ active' = [active EXCEPT ![d] = ~@]
    /\ UNCHANGED <<faceTemplates, accesslogs, syncLogs, now, flowVars, histVars,
                   lastAppend, channel, schedVars, connections, calls, lastPush, query,
                   received>>

\* the positions in the list getUnsyncedFaceTemplates returns
TemplateIdx == 1..Len(getUnsyncedFaceTemplates(<<>>, 0).templates)

\* the users for which enrollUser returns True on one device: none of them
\* (the device is unreachable) or all of them
UserAckSets == {{}, 1..Len(users)}

\* the terminals an operator switches: the one that is inactive at first
ToggleTerminals == {3}

\* the scheduled push flow, while operators switch terminals
NextPush ==
    \/ PushStartOk
    \/ \E fault \in PushStartFaults, hf \in BOOLEAN : PushStartRaise(fault, hf)
    \/ \E uAcks \in UserAckSets, tAcks \in SUBSET (1..Len(templates)),
          failAt \in 0..Len(templates), hf \in BOOLEAN :
            PushDevice(uAcks, tAcks, failAt, hf)
    \/ PushFinishOk
    \/ \E hf \in BOOLEAN : PushFinishRaise(hf)
    \/ \E d \in ToggleTerminals : ToggleActive(d)

SpecPush == Init /\ [][NextPush]_vars

\* the push flow and the manual push to one named device, in any order
NextPushCli ==
    \/ PushStartOk
    \/ \E uAcks \in UserAckSets, tAcks \in SUBSET (1..Len(templates)),
          failAt \in 0..Len(templates), hf \in BOOLEAN :
            PushDevice(uAcks, tAcks, failAt, hf)
    \/ PushFinishOk
    \/ \E deviceName \in DeviceNames, tAcks \in SUBSET TemplateIdx,
          failAt \in TemplateIdx \cup {0} :
            ManualPush(deviceName, tAcks, failAt)

SpecPushCli == Init /\ [][NextPushCli]_vars

\* everything that writes the ledger: the scheduled push flow with its store
\* failures, and the manual push
NextLedger ==
    \/ PushStartOk
    \/ \E fault \in PushStartFaults, hf \in BOOLEAN : PushStartRaise(fault, hf)
    \/ \E uAcks \in UserAckSets, tAcks \in SUBSET (1..Len(templates)),
          failAt \in 0..Len(templates), hf \in BOOLEAN :
            PushDevice(uAcks, tAcks, failAt, hf)
    \/ PushFinishOk
    \/ \E hf \in BOOLEAN : PushFinishRaise(hf)
    \/ \E deviceName \in DeviceNames, tAcks \in SUBSET TemplateIdx,
          failAt \in TemplateIdx \cup {0} :
            ManualPush(deviceName, tAcks, failAt)

SpecLedger == Init /\ [][NextLedger]_vars

----------------------------------------------------------------------------
(* SyncManager.syncLogsFromDevices *)

\* lines 986-993: the flow starts and refreshes the device list
PullStartOk ==
    /\ pc = "idle"
    /\ cycles < FlowBound
    /\ cycles' = cycles + 1
    /\ deviceClients' = refreshDevices(active)
    /\ pc' = "pull"
    /\ devIdx' = 1
    /\ visits' = <<>>
    /\ done' = [flow |-> "pull", outcome |-> None]
    /\ UNCHANGED <<storeVars, now, users, templates, totals, histVars,
                   lastAppend, channel, schedVars, connections, calls, lastPush, query,
                   received>>

\* line 993: getDevices raises; the call is outside the try block
PullStartRaise ==
    /\ pc = "idle"
    /\ cycles < FlowBound
    /\ cycles' = cycles + 1
    /\ visits' = <<>>
    /\ done' = [flow |-> "pull", outcome |-> "escaped"]
    /\ faulted' = TRUE
    /\ UNCHANGED <<storeVars, now, deviceClients, pc, users, templates, devIdx,
                   totals, acked, lastAppend, channel, schedVars, connections,
                   calls, lastPush, query, received>>

\* where the store may raise in lines 999-1020, in the order of the calls
PullFaults == {"none", "lastSynced", "save", "log"}

\* lines 1027-1036: the handler of one device's pull; hf: the handler's own
\* logSyncOperation call raises, which ends the flow
PullHandler(dc, table, hf) ==
    /\ accesslogs' = table
    /\ syncLogs' = IF hf THEN syncLogs
                   ELSE logSyncOperation(syncLogs, "logs_from_device", dc.name,
                                         0, "error", "exception text", now)
    /\ faulted' = TRUE
    /\ IF hf
       THEN /\ pc' = "idle"
            /\ devIdx' = 0
            /\ done' = [flow |-> "pull", outcome |-> "escaped"]
       ELSE /\ devIdx' = devIdx + 1
            /\ UNCHANGED <<pc, done>>

\* what one loop iteration did: the window it asked the device for, how far
\* it got, whether the list fetched had a log in it, and the count saved
Visit(dc, start, step, fetched, saved) ==
    [name |-> dc.name, terminalId |-> dc.terminalId, start |-> start,
     end |-> now, step |-> step, fetched |-> fetched, saved |-> saved]

\* lines 995-1036: the loop body for the device at devIdx; logs is the list
\* getOfflineAccessLogs returns (empty when the call failed)
PullDevice(logs, fault, hf) ==
    LET dc == deviceClients[devIdx]
        lastSyncedTime == getLastSyncedLogTime(accesslogs, dc.terminalId)
        r == saveDeviceAccessLogs(accesslogs, dc, logs, now)
    IN  /\ pc = "pull"
        /\ devIdx <= Len(deviceClients)
        /\ fault = "lastSynced" => logs = <<>>
        /\ fault \in {"save", "log"} => logs # <<>>
        /\ fault = "none" => ~hf
        /\ fault \in {"none", "log"} => BagCardinality(r.table) <= MaxStored
        /\ CASE fault = "lastSynced" ->
                  /\ visits' = Append(visits, Visit(dc, <<>>,
                                        "lastSynced raised", FALSE, 0))
                  /\ PullHandler(dc, accesslogs, hf)
             [] fault = "save" ->
                  /\ visits' = Append(visits, Visit(dc, lastSyncedTime,
                                        "save raised", TRUE, 0))
                  /\ PullHandler(dc, accesslogs, hf)
             [] fault = "log" ->
                  /\ visits' = Append(visits, Visit(dc, lastSyncedTime,
                                        "log raised", TRUE, r.savedCount))
                  /\ PullHandler(dc, r.table, hf)
             [] fault = "none" /\ logs # <<>> ->
                  /\ visits' = Append(visits, Visit(dc, lastSyncedTime, "saved",
                                        TRUE, r.savedCount))
                  /\ accesslogs' = r.table
                  /\ syncLogs' = logSyncOperation(syncLogs, "logs_from_device",
                                     dc.name, r.savedCount, "success", None, now)
                  /\ devIdx' = devIdx + 1
                  /\ UNCHANGED <<pc, done, faulted>>
             [] fault = "none" /\ logs = <<>> ->
                  /\ visits' = Append(visits, Visit(dc, lastSyncedTime, "empty",
                                        FALSE, 0))
                  /\ devIdx' = devIdx + 1
                  /\ UNCHANGED <<accesslogs, syncLogs, pc, done, faulted>>
        /\ UNCHANGED <<faceTemplates, active, now, deviceClients, users,
                       templates, totals, cycles, acked, lastAppend,
                       channel, schedVars, connections, calls, lastPush, query,
                       received>>

\* lines 1038-1039: the loop is over and the flow returns
PullFinish ==
    /\ pc = "pull"
    /\ devIdx > Len(deviceClients)
    /\ pc' = "idle"
    /\ devIdx' = 0
    /\ done' = [flow |-> "pull", outcome |-> "ok"]
    /\ UNCHANGED <<storeVars, now, deviceClients, users, templates, totals,
                   visits, cycles, histVars, lastAppend, channel, schedVars,
                   connections, calls, lastPush, query, received>>

\* the scheduled pull flow, while time passes
NextPull ==
    \/ PullStartOk
    \/ PullStartRaise
    \/ \E logs \in Batches, fault \in PullFaults, hf \in BOOLEAN :
          PullDevice(logs, fault, hf)
    \/ PullFinish
    \/ Tick

SpecPull == Init /\ [][NextPull]_vars

NextStore ==
    \/ Tick
    \/ \E d \in LogTerminals, logs \in Batches : CallAppend(d, logs)

SpecStore == Init /\ [][NextStore]_vars

----------------------------------------------------------------------------
(* Direct calls of the store operations, and their connections *)

\* Every operation opens its connection in its first statement and closes
\* it in its last one, outside any try/finally (lines 192 and 275, 280 and
\* 376, 381 and 401, 406 and 432, 439 and 505, 510 and 541, 554 and 570): a
\* call that raises in between does not reach the close.
ConnectionsAfter(open, raised) == IF raised THEN open + 1 ELSE open

\* whether a direct call may raise: the number of open connections is capped
MayRaise(raises) == raises => connections < MaxOpen

\* the ledger ids a direct call names: the rows, and one id without a row
LedgerIds == 1..(Len(faceTemplates) + 1)

\* lines 190-276: each SELECT is inside a try whose except swallows the
\* exception, so the close of line 275 is reached
CallGetUnsyncedUsers ==
    /\ pc = "idle"
    /\ connections' = ConnectionsAfter(connections, FALSE)
    /\ UNCHANGED <<storeVars, now, flowVars, histVars, lastAppend, channel,
                   schedVars, calls, lastPush, query, received>>

\* lines 278-377; failAt: the user at whose ledger statements the store
\* raises
CallGetUnsyncedFaceTemplates(failAt) ==
    LET r == getUnsyncedFaceTemplates(faceTemplates, failAt)
    IN  /\ pc = "idle"
        /\ failAt > 0 => r.raised
        /\ MayRaise(r.raised)
        /\ faceTemplates' = r.ledger
        /\ connections' = ConnectionsAfter(connections, r.raised)
        /\ UNCHANGED <<active, accesslogs, syncLogs, now, flowVars, histVars,
                       lastAppend, channel, schedVars, calls, lastPush, query,
                       received>>

\* lines 379-402; raises: the SELECT raises
CallGetDevices(raises) ==
    /\ pc = "idle"
    /\ MayRaise(raises)
    /\ connections' = ConnectionsAfter(connections, raises)
    /\ UNCHANGED <<storeVars, now, flowVars, histVars, lastAppend, channel,
                   schedVars, calls, lastPush, query, received>>

\* lines 404-432; raises: the SELECT or the UPDATE raises
CallMarkFaceTemplateSynced(templateId, deviceName, raises) ==
    /\ pc = "idle"
    /\ MayRaise(raises)
    /\ faceTemplates' = IF raises THEN faceTemplates
                        ELSE markFaceTemplateSynced(faceTemplates, templateId,
                                                    deviceName)
    /\ connections' = ConnectionsAfter(connections, raises)
    /\ UNCHANGED <<active, accesslogs, syncLogs, now, flowVars, histVars,
                   lastAppend, channel, schedVars, calls, lastPush, query,
                   received>>

\* lines 434-506 when the commit of line 504 raises: the statements of the
\* loop are each inside the try of line 444, the commit is not
CallAppendCommitRaises(d, logs) ==
    /\ pc = "idle"
    /\ logs # <<>>
    /\ MayRaise(TRUE)
    /\ connections' = ConnectionsAfter(connections, TRUE)
    /\ UNCHANGED <<storeVars, now, flowVars, histVars, lastAppend, channel,
                   schedVars, calls, lastPush, query, received>>

\* lines 508-549; raises: one of the two SELECTs raises
CallGetLastSyncedLogTime(d, raises) ==
    /\ pc = "idle"
    /\ MayRaise(raises)
    /\ connections' = ConnectionsAfter(connections, raises)
    /\ UNCHANGED <<storeVars, now, flowVars, histVars, lastAppend, channel,
                   schedVars, calls, lastPush, query, received>>

\* lines 551-570; raises: the INSERT or the commit raises
CallLogSyncOperation(deviceName, raises) ==
    /\ pc = "idle"
    /\ MayRaise(raises)
    /\ ~raises => Len(syncLogs) < MaxCycles
    /\ syncLogs' = IF raises THEN syncLogs
                   ELSE logSyncOperation(syncLogs, "logs_from_device",
                                         deviceName, 0, "success", None, now)
    /\ connections' = ConnectionsAfter(connections, raises)
    /\ UNCHANGED <<faceTemplates, active, accesslogs, now, flowVars, histVars,
                   lastAppend, channel, schedVars, calls, lastPush, query,
                   received>>

\* the inputs of the direct calls: one terminal, the batches of one log,
\* the names of the two terminals that are active at first
OpsTerminals == {1}

OpsBatches == SeqsUpTo(RawLogUniverse, 1)

OpsDeviceNames == {terminalsa[i].terminalname : i \in {1, 2}}

NextOps ==
    \/ CallGetUnsyncedUsers
    \/ \E failAt \in 0..Len(getUnsyncedUsers) :
           CallGetUnsyncedFaceTemplates(failAt)
    \/ \E raises \in BOOLEAN : CallGetDevices(raises)
    \/ \E templateId \in LedgerIds, deviceName \in OpsDeviceNames,
          raises \in BOOLEAN :
           CallMarkFaceTemplateSynced(templateId, deviceName, raises)
    \/ \E d \in OpsTerminals, logs \in OpsBatches : CallAppend(d, logs)
    \/ \E d \in OpsTerminals, logs \in OpsBatches :
           CallAppendCommitRaises(d, logs)
    \/ \E d \in OpsTerminals, raises \in BOOLEAN :
           CallGetLastSyncedLogTime(d, raises)
    \/ \E raises \in BOOLEAN : CallLogSyncOperation(None, raises)

SpecOps == Init /\ [][NextOps]_vars

----------------------------------------------------------------------------
(* BridgeCLI.manual_sync_logs with a device name, and the commands of the CLI *)

\* lines 1221-1240: nothing in them writes the audit table, and nothing in
\* them catches an exception; logs is what getOfflineAccessLogs returns
ManualPull(deviceName, logs) ==
    LET clients == getDevices(active)
        found == {i \in 1..Len(clients) : clients[i].name = deviceName}
        dc == clients[CHOOSE i \in found : \A j \in found : i <= j]
        lastSyncedTime == getLastSyncedLogTime(accesslogs, dc.terminalId)
        r == saveDeviceAccessLogs(accesslogs, dc, logs, now)
    IN  /\ pc = "idle"
        /\ cycles < FlowBound
        /\ cycles' = cycles + 1
        /\ deviceClients' = clients
        /\ IF found = {}
           THEN /\ logs = <<>>
                /\ done' = [flow |-> "manualPull", outcome |-> "not found"]
                /\ UNCHANGED <<accesslogs, visits>>
           ELSE /\ BagCardinality(r.table) <= MaxStored
                /\ accesslogs' = r.table
                /\ visits' = <<Visit(dc, lastSyncedTime,
                                     IF logs # <<>> THEN "saved" ELSE "empty",
                                     logs # <<>>, r.savedCount)>>
                /\ done' = [flow |-> "manualPull", outcome |-> "ok"]
        /\ UNCHANGED <<faceTemplates, active, syncLogs, now, pc, users,
                       templates, devIdx, totals, histVars, lastAppend,
                       channel, schedVars, connections, calls, lastPush, query,
                       received>>

\* the commands sync-users and sync-logs, with and without --device, when no
\* store call raises
NextCli ==
    \/ PushStartOk
    \/ \E uAcks \in UserAckSets, tAcks \in SUBSET (1..Len(templates)) :
           PushDevice(uAcks, tAcks, 0, FALSE)
    \/ PushFinishOk
    \/ \E deviceName \in DeviceNames, tAcks \in SUBSET TemplateIdx :
           ManualPush(deviceName, tAcks, 0)
    \/ PullStartOk
    \/ \E logs \in OpsBatches : PullDevice(logs, "none", FALSE)
    \/ PullFinish
    \/ \E deviceName \in DeviceNames, logs \in OpsBatches :
           ManualPull(deviceName, logs)

SpecCli == Init /\ [][NextCli]_vars

----------------------------------------------------------------------------
(* Everything that writes the audit table *)

\* the push flow and the pull flow with their store failures, the manual
\* push, and direct calls of logSyncOperation and saveDeviceAccessLogs
NextAudit ==
    \/ PushStartOk
    \/ \E fault \in PushStartFaults, hf \in BOOLEAN : PushStartRaise(fault, hf)
    \/ \E uAcks \in UserAckSets, hf \in BOOLEAN : PushDevice(uAcks, {}, 0, hf)
    \/ PushFinishOk
    \/ \E hf \in BOOLEAN : PushFinishRaise(hf)
    \/ \E deviceName \in OpsDeviceNames : ManualPush(deviceName, {}, 0)
    \/ PullStartOk
    \/ PullStartRaise
    \/ \E logs \in OpsBatches, fault \in PullFaults, hf \in BOOLEAN :
          PullDevice(logs, fault, hf)
    \/ PullFinish
    \/ CallLogSyncOperation(None, FALSE)

SpecAudit == Init /\ [][NextAudit]_vars

----------------------------------------------------------------------------
(* Direct calls of a device client *)

\* A client keeps nothing between two calls (lines 666-677 set its fields
\* once), so a behaviour follows one call: the model makes it from the state
\* in which no call was made yet.

\* the texts a device answers an enrollment with
EnrollResponses == {<<>>, << <<"OK">> >>}

CallEnrollUser(outcome) ==
    /\ pc = "idle" /\ channel.op = None
    /\ channel' = [op |-> "enrollUser", outcome |-> outcome,
                   result |-> enrollUser(outcome)]
    /\ UNCHANGED <<storeVars, now, flowVars, histVars, lastAppend, schedVars,
                   connections, calls, lastPush, query, received>>

CallEnrollFaceTemplate(outcome) ==
    /\ pc = "idle" /\ channel.op = None
    /\ channel' = [op |-> "enrollFaceTemplate", outcome |-> outcome,
                   result |-> enrollFaceTemplate(outcome)]
    /\ UNCHANGED <<storeVars, now, flowVars, histVars, lastAppend, schedVars,
                   connections, calls, lastPush, query, received>>

CallGetOfflineAccessLogs(outcome) ==
    /\ pc = "idle" /\ channel.op = None
    /\ channel' = [op |-> "getOfflineAccessLogs", outcome |-> outcome,
                   result |-> getOfflineAccessLogs(outcome)]
    /\ UNCHANGED <<storeVars, now, flowVars, histVars, lastAppend, schedVars,
                   connections, calls, lastPush, query, received>>

NextChannel ==
    \/ \E outcome \in ApiOutcomes(EnrollResponses) : CallEnrollUser(outcome)
    \/ \E outcome \in ApiOutcomes(EnrollResponses) :
           CallEnrollFaceTemplate(outcome)
    \/ \E outcome \in ApiOutcomes(Responses) :
           CallGetOfflineAccessLogs(outcome)

SpecChannel == Init /\ [][NextChannel]_vars

----------------------------------------------------------------------------
(* BridgeCLI.start_sync_service, SyncManager.start and SyncManager.stop *)

\* The worker is a daemon thread (line 1091): it runs as long as the main
\* thread has not returned from start_sync_service.
Alive == main # "exited"

\* the flow the worker is calling at its position in start()
CurrentJob ==
    IF worker = "initPush" THEN "push"
    ELSE IF worker = "initPull" THEN "pull"
    ELSE IF worker = "jobs" /\ due # <<>> THEN Head(due) ELSE None

\* a worker that goes on as soon as the flow has started
JobDetached == cycles > seen

\* the call of the flow has returned to the worker: the flow was started
\* and is not in progress
JobReturned == pc = "idle" /\ cycles > seen

\* the lists of jobs run_pending may find due, in the order it runs them
DueLists ==
    {l \in {<<>>, <<"push">>, <<"pull">>, <<"push", "pull">>,
            <<"pull", "push">>} : cycles + Len(l) <= FlowBound}

\* lines 1083-1093: the main thread launches the worker and goes to wait for
\* Ctrl+C
StartService ==
    /\ main = "cli" /\ pc = "idle"
    /\ main' = "waiting"
    /\ worker' = "launched"
    /\ UNCHANGED <<storeVars, now, flowVars, histVars, lastAppend, channel,
                   running, due, seen, connections, calls, lastPush, query,
                   received>>

\* lines 890-905: the first statements of start(), up to the initial push
WorkerStart ==
    /\ Alive /\ worker = "launched"
    /\ running' = TRUE
    /\ deviceClients' = refreshDevices(active)
    /\ worker' = "initPush"
    /\ seen' = cycles
    /\ UNCHANGED <<storeVars, now, pc, users, templates, devIdx, totals, done,
                   visits, cycles, histVars, lastAppend, channel, main, due,
                   connections, calls, lastPush, query, received>>

\* lines 909-910 and 914: the worker calls a flow, and the flow runs in the
\* worker, step by step
WorkerPushStart ==
    /\ Alive /\ CurrentJob = "push" /\ cycles = seen
    /\ PushStartOk

WorkerPushDevice(uAcks, tAcks) ==
    /\ Alive /\ CurrentJob = "push"
    /\ PushDevice(uAcks, tAcks, 0, FALSE)

WorkerPushFinish ==
    /\ Alive /\ CurrentJob = "push"
    /\ PushFinishOk

WorkerPullStart ==
    /\ Alive /\ CurrentJob = "pull" /\ cycles = seen
    /\ PullStartOk

WorkerPullDevice ==
    /\ Alive /\ CurrentJob = "pull"
    /\ PullDevice(<<>>, "none", FALSE)

WorkerPullFinish ==
    /\ Alive /\ CurrentJob = "pull"
    /\ PullFinish

\* the flow returned: the worker goes to its next statement (line 910 after
\* 909, line 913 after 910, the next due job inside run_pending)
WorkerJobReturned ==
    /\ Alive /\ CurrentJob # None /\ JobReturned
    /\ worker' = IF worker = "initPush" THEN "initPull"
                 ELSE IF worker = "initPull" THEN "loop" ELSE worker
    /\ due' = IF worker = "jobs" THEN Tail(due) ELSE due
    /\ seen' = cycles
    /\ UNCHANGED <<storeVars, now, flowVars, histVars, lastAppend, channel,
                   running, main, connections, calls, lastPush, query,
                   received>>

\* line 913: while self.running; line 914: run_pending collects the due jobs
WorkerLoopTest(jobs) ==
    /\ Alive /\ worker = "loop"
    /\ IF running
       THEN /\ jobs \in DueLists
            /\ worker' = "jobs"
            /\ due' = jobs
       ELSE /\ jobs = <<>>
            /\ worker' = "ended"
            /\ due' = due
    /\ UNCHANGED <<storeVars, now, flowVars, histVars, lastAppend, channel,
                   running, main, seen, connections, calls, lastPush, query,
                   received>>

\* lines 914-915: run_pending has run every due job; the worker sleeps and
\* goes back to the loop test
WorkerSleep ==
    /\ Alive /\ worker = "jobs" /\ due = <<>>
    /\ worker' = "loop"
    /\ UNCHANGED <<storeVars, now, flowVars, histVars, lastAppend, channel,
                   running, main, due, seen, connections, calls, lastPush, query,
                   received>>

\* lines 1099-1100 and 922-925: Ctrl+C in the main thread calls stop()
StopRequest ==
    /\ main = "waiting"
    /\ running' = FALSE
    /\ main' = "stopped"
    /\ UNCHANGED <<storeVars, now, flowVars, histVars, lastAppend, channel,
                   worker, due, seen, connections, calls, lastPush, query,
                   received>>

\* line 1101 and the return of run(): the main thread ends, and with it the
\* process and its daemon thread
ProcessExit ==
    /\ main = "stopped"
    /\ main' = "exited"
    /\ UNCHANGED <<storeVars, now, flowVars, histVars, lastAppend, channel,
                   running, worker, due, seen, connections, calls, lastPush, query,
                   received>>

NextService ==
    \/ StartService
    \/ WorkerStart
    \/ WorkerPushStart
    \/ \E uAcks \in UserAckSets, tAcks \in {{}, 1..Len(templates)} :
           WorkerPushDevice(uAcks, tAcks)
    \/ WorkerPushFinish
    \/ WorkerPullStart
    \/ WorkerPullDevice
    \/ WorkerPullFinish
    \/ WorkerJobReturned
    \/ \E jobs \in DueLists : WorkerLoopTest(jobs)
    \/ WorkerSleep
    \/ StopRequest
    \/ ProcessExit

SpecService == Init /\ [][NextService]_vars

----------------------------------------------------------------------------
(* Claims about the push flow and the ledger *)

LedgerRows == {faceTemplates[i] : i \in 1..Len(faceTemplates)}

Names(list) == {list[i] : i \in 1..Len(list)}

Occurrences(list, x) == Cardinality({i \in 1..Len(list) : list[i] = x})

\* C1: a device name is in a ledger row's syncedDevices only if an
\* enrollFaceTemplate call for that template on a device of that name has
\* returned True
C1_MarkedOnlyIfAcked ==
    \A row \in LedgerRows : \A name \in Names(row.syncedDevices) :
        <<row.id, name>> \in acked

\* the audit rows the push flow writes
PushRows == SelectSeq(syncLogs, LAMBDA r : r.syncType = "users_to_devices")

\* C2: however often the push flow runs, no ledger row names a device twice;
\* and while no store call has raised, every (template, device name) pair
\* whose enroll was acknowledged is in the ledger exactly once, and every push
\* flow that has ended returned normally after writing its success row
C2_PushTwiceMarksOnce ==
    /\ \A row \in LedgerRows : \A name \in Names(row.syncedDevices) :
           Occurrences(row.syncedDevices, name) = 1
    /\ ~faulted =>
           /\ \A pair \in acked : \E row \in LedgerRows :
                  /\ row.id = pair[1]
                  /\ Occurrences(row.syncedDevices, pair[2]) = 1
           /\ (pc = "idle" /\ done.flow = "push") =>
                  /\ done.outcome = "ok"
                  /\ Len(PushRows) = cycles
                  /\ \A i \in 1..cycles : PushRows[i].status = "success"

\* two push flows have run to the end without a store failure, the first
\* enrolled every template on every device and the second, over the same
\* devices (two of them share a name), enrolled every user and no template
C2_Witness ==
    /\ cycles = 2 /\ pc = "idle" /\ ~faulted
    /\ done = [flow |-> "push", outcome |-> "ok"]
    /\ active = <<TRUE, TRUE, TRUE>>
    /\ Len(faceTemplates) > 1
    /\ \A row \in LedgerRows : Names(row.syncedDevices) = {"Main", "Server"}
    /\ Len(PushRows) = 2
    /\ PushRows[1].recordsSynced >= 2 * Len(faceTemplates)
    /\ PushRows[2].recordsSynced = 3 * Len(getUnsyncedUsers)

\* C7: no push flow lets an exception escape to its caller
C7_PushNeverEscapes ==
    done.flow = "push" => done.outcome # "escaped"

\* C9: when every flow started so far was a push flow and none is in
\* progress, the audit table holds one row of the push flow per flow started
C9_OneRowPerPush ==
    pc = "idle" /\ done.flow \in {None, "push"} => Len(PushRows) = cycles

----------------------------------------------------------------------------
(* Claims about the access-log store *)

SameKey(e, f) ==
    /\ e.terminalid = f.terminalid
    /\ e.datetime = f.datetime
    /\ e.cardid = f.cardid

\* C3: no two stored access-log rows share (terminalid, datetime, cardid):
\* every stored row is stored once, and two stored rows with the same key
\* are the same row
C3_UniqueDedupKey ==
    \A e \in BagToSet(accesslogs) :
        /\ CopiesIn(e, accesslogs) = 1
        /\ \A f \in BagToSet(accesslogs) : SameKey(e, f) => e = f

\* a direct call found at least one of its records already stored, and rows
\* of two terminals are stored
C3_Witness ==
    /\ lastAppend.savedCount < lastAppend.mapped
    /\ Cardinality({e.terminalid : e \in BagToSet(accesslogs)}) = 2

\* appending logs for device d at the current instant and then again at
\* instant t: the second call returns 0 and leaves the table as the first
\* left it
SecondAppendIsNoOp(d, logs, t) ==
    LET dc == DeviceClient(terminalsa[d])
        first == saveDeviceAccessLogs(accesslogs, dc, logs, now)
        second == saveDeviceAccessLogs(first.table, dc, logs, t)
    IN  second.savedCount = 0 /\ second.table = first.table

HasCreateTime(log) == log.CreateTime # None /\ log.CreateTime # ""

\* C4 as stated: from every reachable table, appending any raw log list
\* twice for the same terminal inserts nothing the second time
C4_Original ==
    \A d \in LogTerminals, logs \in Batches, t \in Instants :
        t >= now => SecondAppendIsNoOp(d, logs, t)

\* C4 amended: the second append inserts nothing when every record of the list
\* carries a CreateTime, or when both appends are made within the same second
C4_SecondAppendInsertsNothing ==
    \A d \in LogTerminals, logs \in Batches, t \in Instants :
        /\ t >= now
        /\ (t = now \/ \A i \in 1..Len(logs) : HasCreateTime(logs[i]))
        => SecondAppendIsNoOp(d, logs, t)

\* a direct call whose records all mapped to a row stored none of them: each
\* was stored before
C4_Witness ==
    /\ lastAppend.mapped = MaxBatch
    /\ lastAppend.savedCount = 0
    /\ now > CHOOSE t \in Instants : \A u \in Instants : t <= u

----------------------------------------------------------------------------
(* Claims about the pull flow *)

TerminalIds == {terminalsa[i].terminalid : i \in Terminals}

\* C5: no step lowers the value getLastSyncedLogTime returns for a terminal,
\* None counting as below every instant
C5_LastSyncedNonDecreasing ==
    [][\A T \in TerminalIds :
          TimeLeq(getLastSyncedLogTime(accesslogs, T),
                  getLastSyncedLogTime(accesslogs', T))]_vars

\* the last visit of the second pull flow stored rows for a terminal, none of
\* them later than the rows stored before: the value returned is still the
\* one the visit started from, and the terminal holds an earlier row too
C5_Witness ==
    /\ cycles = 2
    /\ visits # <<>>
    /\ LET v == visits[Len(visits)]
       IN  /\ v.step = "saved"
           /\ v.saved > 0
           /\ v.start # <<>>
           /\ getLastSyncedLogTime(accesslogs, v.terminalId) = v.start
           /\ \E e \in BagToSet(accesslogs) :
                 /\ e.terminalid = v.terminalId
                 /\ ParseTime(e.datetime) < v.start[1]

RaisedSteps == {"lastSynced raised", "save raised", "log raised"}

\* C6: when a pull flow has ended and one of its devices' pulls raised, every
\* device of the list was visited, and every visit that fetched logs and did
\* not raise has its success row in the audit table
C6_OtherDevicesStillPulled ==
    (/\ pc = "idle"
     /\ done.flow = "pull"
     /\ \E i \in 1..Len(visits) : visits[i].step \in RaisedSteps)
    => /\ Len(visits) = Len(deviceClients)
       /\ \A i \in 1..Len(visits) :
             visits[i].step = "saved" =>
                 \E k \in 1..Len(syncLogs) :
                     /\ syncLogs[k].syncType = "logs_from_device"
                     /\ syncLogs[k].deviceName = visits[i].name
                     /\ syncLogs[k].status = "success"
                     /\ syncLogs[k].recordsSynced = visits[i].saved

\* C8: no pull flow lets an exception escape to its caller
C8_PullNeverEscapes ==
    done.flow = "pull" => done.outcome # "escaped"

\* the visit a step of the pull flow has just made
NewVisit == visits'[Len(visits')]

\* C10: a visit of the pull flow in which no store call raises appends, when
\* the fetched list is not empty, exactly one audit row, a success row for the
\* device whose recordsSynced is the count saveDeviceAccessLogs returned, which
\* is the number of rows the call inserted; when the list is empty it leaves
\* the audit table and the access-log table as they were
C10_PullRecordsOneSuccess ==
    [][(pc = "pull" /\ Len(visits') = Len(visits) + 1
            /\ NewVisit.step \notin RaisedSteps)
       => /\ NewVisit.fetched =>
                /\ syncLogs' = Append(syncLogs,
                       [syncType |-> "logs_from_device",
                        deviceName |-> deviceClients[devIdx].name,
                        recordsSynced |-> NewVisit.saved,
                        status |-> "success", errorMessage |-> None,
                        timestamp |-> now])
                /\ BagCardinality(accesslogs')
                       = BagCardinality(accesslogs) + NewVisit.saved
          /\ ~NewVisit.fetched =>
                /\ syncLogs' = syncLogs
                /\ accesslogs' = accesslogs]_vars

\* one flow visited a device that returned no log and a device all of whose
\* logs were stored before, so that the success row counts 0
C10_Witness ==
    /\ \E i \in 1..Len(visits) : visits[i].step = "empty"
    /\ \E i \in 1..Len(visits) :
          /\ visits[i].step = "saved"
          /\ visits[i].fetched
          /\ visits[i].saved = 0
          /\ syncLogs[Len(syncLogs)].recordsSynced = 0
          /\ syncLogs[Len(syncLogs)].deviceName = visits[i].name

\* C11: every visit of the current pull flow in which a store call raised has
\* its error row in the audit table: the device's name, recordsSynced 0 and
\* the error text; and the step that raises appends no success row
C11_PullErrorRecorded ==
    \A i \in 1..Len(visits) :
        visits[i].step \in RaisedSteps =>
            /\ \E k \in 1..Len(syncLogs) :
                  /\ syncLogs[k].syncType = "logs_from_device"
                  /\ syncLogs[k].deviceName = visits[i].name
                  /\ syncLogs[k].status = "error"
                  /\ syncLogs[k].recordsSynced = 0
                  /\ syncLogs[k].errorMessage # None
            /\ (i = Len(visits) /\ syncLogs # <<>>) =>
                  syncLogs[Len(syncLogs)].status # "success"

----------------------------------------------------------------------------
(* Claims about the ledger operations *)

\* C12: from every reachable ledger, for every template id (also one of no
\* row) and every device name: markFaceTemplateSynced leaves the ledger as it
\* is when the name is in the row's syncedDevices, appends the name at the end
\* of the row's list when it is not, touches no other row, and a second call
\* with the same arguments changes nothing
C12_MarkIdempotent ==
    \A id \in 1..(Len(faceTemplates) + 1), name \in DeviceNames :
        LET once == markFaceTemplateSynced(faceTemplates, id, name)
            twice == markFaceTemplateSynced(once, id, name)
        IN  /\ twice = once
            /\ Len(once) = Len(faceTemplates)
            /\ \A i \in 1..Len(faceTemplates) :
                  LET row == faceTemplates[i]
                  IN  IF row.id = id /\ name \notin Names(row.syncedDevices)
                      THEN once[i] = [row EXCEPT !.syncedDevices =
                                         Append(row.syncedDevices, name)]
                      ELSE once[i] = row

\* the ledger holds a row synced to two names, second name first in the
\* alphabet, and a row synced to none
C12_Witness ==
    /\ \E row \in LedgerRows : row.syncedDevices = <<"Server", "Main">>
    /\ \E row \in LedgerRows : row.syncedDevices = <<>>

IsPrefix(s, t) == Len(s) <= Len(t) /\ SubSeq(t, 1, Len(s)) = s

\* C13: no step removes a ledger row, changes the template a row stands for,
\* or takes a name out of a row's syncedDevices: the old list is a prefix of
\* the new one
C13_SyncedDevicesOnlyGrow ==
    [][/\ Len(faceTemplates') >= Len(faceTemplates)
       /\ \A i \in 1..Len(faceTemplates) :
             /\ faceTemplates'[i].id = faceTemplates[i].id
             /\ faceTemplates'[i].userId = faceTemplates[i].userId
             /\ faceTemplates'[i].userType = faceTemplates[i].userType
             /\ IsPrefix(faceTemplates[i].syncedDevices,
                         faceTemplates'[i].syncedDevices)]_vars

\* a manual push has run after a scheduled push flow that wrote its audit
\* row, and a ledger row is synced to two names
C13_Witness ==
    /\ cycles = 2
    /\ done.flow = "manual"
    /\ PushRows # <<>>
    /\ \E row \in LedgerRows : Len(row.syncedDevices) = 2

\* the row of the ledger with the given id
RowOf(ledger, id) == ledger[CHOOSE i \in 1..Len(ledger) : ledger[i].id = id]

\* C14: in every reachable ledger, two users of getUnsyncedUsers with the
\* same id and different roles get templates with different ids from
\* getUnsyncedFaceTemplates, the two ids name different ledger rows, each of
\* its own role, and markFaceTemplateSynced for one of the two leaves the
\* other's row as it was
C14_RoleKeepsRowsApart ==
    LET all_users == getUnsyncedUsers
        r == getUnsyncedFaceTemplates(faceTemplates, 0)
        TemplateFor(u) ==
            {k \in 1..Len(r.templates) :
                /\ r.templates[k].userId = all_users[u].id
                /\ r.templates[k].userName = all_users[u].name}
    IN  \A u, v \in 1..Len(all_users) :
            (/\ all_users[u].id = all_users[v].id
             /\ all_users[u].role # all_users[v].role)
            => \A k \in TemplateFor(u), m \in TemplateFor(v) :
                  LET a == r.templates[k].id
                      b == r.templates[m].id
                  IN  /\ a # b
                      /\ RowOf(r.ledger, a).userType = all_users[u].role
                      /\ RowOf(r.ledger, b).userType = all_users[v].role
                      /\ \A name \in DeviceNames :
                            RowOf(markFaceTemplateSynced(r.ledger, a, name), b)
                                = RowOf(r.ledger, b)

\* the ledger holds a student's row and an employee's row for the same id,
\* and only one of the two is synced to a device
C14_Witness ==
    \E a, b \in LedgerRows :
        /\ a.userId = b.userId
        /\ a.userType = "student" /\ b.userType = "employee"
        /\ a.syncedDevices # <<>>
        /\ b.syncedDevices = <<>>

----------------------------------------------------------------------------
(* Claims about the device client *)

\* The form records[N].<field>=<value> of the claim C15: the word records,
\* an index of digits between the brackets, a dot and a field name.
C15_IsRecordLine(line) ==
    LET key == SplitFirst(line, "=")[1]
        close == Find(key, "]")
    IN  /\ Find(line, "=") > 0
        /\ Len(key) >= 6
        /\ key[1] = "records" /\ key[2] = "["
        /\ close >= 4
        /\ \A i \in 3..(close - 1) : key[i] \in DigitTokens
        /\ Len(key) = close + 2
        /\ key[close + 1] = "."
        /\ key[close + 2] \notin {"[", "]", ".", "="}

C15_Index(line) ==
    LET key == SplitFirst(line, "=")[1]
    IN  IntValue(SubSeq(key, 3, Find(key, "]") - 1))

C15_Field(line) ==
    LET key == SplitFirst(line, "=")[1] IN <<key[Len(key)]>>

C15_Value(line) == SplitFirst(line, "=")[2]

\* the mappings C15 describes: one per index among the lines of the form,
\* in the order of first appearance, a later value of a field replacing an
\* earlier one
C15_Expected(response) ==
    LET rl == SelectSeq(response, C15_IsRecordLine)
        first == {i \in 1..Len(rl) :
                     \A j \in 1..(i - 1) : C15_Index(rl[j]) # C15_Index(rl[i])}
        order == CHOOSE o \in [1..Cardinality(first) -> first] :
                     \A a, b \in 1..Cardinality(first) : a < b => o[a] < o[b]
        last(N) == {i \in 1..Len(rl) :
                       /\ C15_Index(rl[i]) = N
                       /\ \A j \in (i + 1)..Len(rl) :
                              ~(/\ C15_Index(rl[j]) = N
                                /\ C15_Field(rl[j]) = C15_Field(rl[i]))}
    IN  [k \in 1..Cardinality(first) |->
            {<<C15_Field(rl[i]), C15_Value(rl[i])>> :
                i \in last(C15_Index(rl[order[k]]))}]

\* C15: the parser maps every response to one mapping per distinct record
\* index, in order of first appearance, built from the lines of the form
\* records[N].<field>=<value> and from nothing else; it ignores every other
\* line.
C15_ParserFollowsForm ==
    (channel.op = "getOfflineAccessLogs" /\ Truthy(channel.outcome)) =>
        _parseKeyValueResponse(channel.outcome.text)
            = [raised |-> FALSE,
               records |-> C15_Expected(channel.outcome.text)]

\* the same statement for the responses all of whose lines either have the
\* form or do not start with records[ at all
C15_OnPlainLines ==
    (/\ channel.op = "getOfflineAccessLogs" /\ Truthy(channel.outcome)
     /\ \A i \in 1..Len(channel.outcome.text) :
            LET line == channel.outcome.text[i]
            IN  C15_IsRecordLine(line) \/ line[1] # "records") =>
        _parseKeyValueResponse(channel.outcome.text)
            = [raised |-> FALSE,
               records |-> C15_Expected(channel.outcome.text)]

\* C18: no operation of a device client raises to its caller. When apiCall
\* raises or returns nothing, enrollUser and enrollFaceTemplate return False
\* and getOfflineAccessLogs returns the empty list; an enrollment returns
\* True only when apiCall returned a response.
C18_NothingRaisesPastClient ==
    channel.op # None =>
        /\ ~channel.result.raised
        /\ channel.op \in {"enrollUser", "enrollFaceTemplate"} =>
               /\ channel.result.value \in BOOLEAN
               /\ channel.result.value => Truthy(channel.outcome)
               /\ channel.outcome.kind \in {"raise", "none"} =>
                      ~channel.result.value
        /\ channel.op = "getOfflineAccessLogs" =>
               (channel.outcome.kind \in {"raise", "none"} =>
                    channel.result.value = <<>>)

\* enrollUser was called and its transport call raised
C18_Witness ==
    /\ channel.op = "enrollUser"
    /\ channel.outcome.kind = "raise"
    /\ channel.result = Returns(FALSE)

----------------------------------------------------------------------------
(* Claims about the count saveDeviceAccessLogs returns *)

\* C17: a call of saveDeviceAccessLogs returns the number of rows it added:
\* the table holds as many rows after the call as before plus the count
\* returned, and the count is at most the number of logs that could be
\* mapped, which is at most the number of logs offered.
C17_ReturnsRowsAdded ==
    [][\/ UNCHANGED <<accesslogs, lastAppend>>
       \/ /\ BagCardinality(accesslogs')
                 = BagCardinality(accesslogs) + lastAppend'.savedCount
          /\ lastAppend'.savedCount <= lastAppend'.mapped
          /\ lastAppend'.mapped <= lastAppend'.offered]_vars

\* a call was offered two logs, one of which could not be mapped, and added
\* the other to a table that held a row already
C17_Witness ==
    /\ lastAppend.offered = 2
    /\ lastAppend.mapped = 1
    /\ lastAppend.savedCount = 1
    /\ BagCardinality(accesslogs) = 2

----------------------------------------------------------------------------
(* Claims about the listing of the face templates *)

C16_HasPhoto(user, year) ==
    \E t \in PicTables :
        /\ t.name = PicTableName(user, year)
        /\ \E r \in t.rows : r.key = user.cardNumber /\ r.pic_contents # ""

C16_TableExists(user, year) ==
    \E t \in PicTables : t.name = PicTableName(user, year)

\* the names of the users of a list that satisfy a condition, in order
C16_NamesOf(list, Keep(_)) ==
    LET kept == SelectSeq(list, Keep) IN [k \in 1..Len(kept) |-> kept[k].name]

C16_Names(list) == [k \in 1..Len(list) |-> list[k].userName]

\* the first four characters as stored are digits
C16_StartsWithFourDigits(user) ==
    IsDigit(FirstFour(user.registrationDate))

\* the first four characters after the surrounding blanks are digits
C16_StrippedStartsWithDigits(user) ==
    IsDigit(FirstFour(Strip(user.registrationDate)))

C16_ListedAsStored(user) ==
    /\ C16_StartsWithFourDigits(user)
    /\ C16_HasPhoto(user, FirstFour(user.registrationDate))

C16_ListedStripped(user) ==
    /\ C16_StrippedStartsWithDigits(user)
    /\ C16_HasPhoto(user, FirstFour(Strip(user.registrationDate)))

----------------------------------------------------------------------------
(* Claims about the sync service *)

\* C19: in the sync service at most one flow is executing at a time. The
\* worker goes to its next statement (the next flow, the loop test, the
\* next due job) only while no flow is in progress; a flow starts only
\* while none is in progress and only as the one call the worker is making;
\* and a step of a flow moves its loop by one device.
C19_OneFlowAtATime ==
    [][/\ (worker' # worker \/ due' # due) => (pc = "idle" /\ pc' = "idle")
       /\ cycles' # cycles =>
              /\ pc = "idle"
              /\ cycles = seen
              /\ cycles' = cycles + 1
              /\ worker \in {"initPush", "initPull", "jobs"}
       /\ (pc # "idle" /\ pc' = pc /\ devIdx' # devIdx) =>
              devIdx' = devIdx + 1]_vars

\* after the two initial flows run_pending found both jobs due: the first
\* is in progress at its second device and the other waits
C19_Witness ==
    /\ worker = "jobs"
    /\ Len(due) = 2
    /\ pc # "idle"
    /\ devIdx = 2
    /\ cycles = 3

\* C20: stopping is cooperative. A flow that is in progress when the stop
\* is requested runs to its end, and no flow is started after the request.
C20_StopIsCooperative ==
    [][/\ main' = "exited" => pc' = "idle"
       /\ cycles' # cycles => main = "waiting"]_vars

----------------------------------------------------------------------------
(* Claims about the store operations *)

\* C21: every store operation releases the connection it acquired on every
\* exit, by return or by exception: after any direct call no connection
\* opened by it remains open.
C21_NoConnectionLeftOpen == connections = 0

\* C22: the audit table is append-only. Every step leaves the rows that
\* were in syncLogs where they were and as they were; a step that changes
\* the table adds rows at its end.
C22_AuditAppendOnly == [][IsPrefix(syncLogs, syncLogs')]_vars

\* a push flow and a pull flow have each appended a row after a direct call
\* of logSyncOperation wrote the first one
C22_Witness ==
    /\ Len(syncLogs) = 3
    /\ syncLogs[1].syncType = "logs_from_device" /\ syncLogs[1].deviceName = None
    /\ syncLogs[2].syncType = "users_to_devices"
    /\ syncLogs[3].syncType = "logs_from_device"
    /\ syncLogs[3].deviceName # None

\* the step appends one row that carries a status and a count
C23_RowAppended ==
    /\ Len(syncLogs') = Len(syncLogs) + 1
    /\ syncLogs'[Len(syncLogs')].status \in {"success", "error"}
    /\ syncLogs'[Len(syncLogs')].recordsSynced \in Nat

\* C23: every triggered flow reports its outcome and its count in the audit
\* table. The step that completes a push, to all devices or to one named
\* device, appends a row; so does the step of a pull, from all devices or
\* from one named device, in which a device returned logs.
C23_EveryFlowAudited ==
    [][/\ (pc = "push" /\ pc' = "idle" /\ done'.outcome = "ok")
              => C23_RowAppended
       /\ (cycles' # cycles /\ done'.flow = "manual" /\ done'.outcome = "ok")
              => C23_RowAppended
       /\ (pc = "pull" /\ Len(visits') = Len(visits) + 1
           /\ visits'[Len(visits')].fetched)
              => C23_RowAppended
       /\ (cycles' # cycles /\ done'.flow = "manualPull"
           /\ done'.outcome = "ok" /\ visits'[1].fetched)
              => C23_RowAppended]_vars

----------------------------------------------------------------------------
(* C24 *)

\* every enrollFaceTemplate call of the flow in progress was made for a
\* template whose list, as the flow read it, lacked the device's name
C24_CalledOnlyIfUnlisted ==
    \A p \in calls.enrollFaceTemplate :
        \E i \in 1..Len(templates) :
            /\ templates[i].id = p[1]
            /\ ~Contains(templates[i].syncedDevices, deviceClients[p[2]].name)

\* a push flow is in progress over the templates and the devices of the last
\* push that completed, and every enrollFaceTemplate call of that push
\* returned True
C24_SecondPush ==
    /\ pc = "push"
    /\ lastPush.allAcked
    /\ lastPush.templates = {templates[i].id : i \in 1..Len(templates)}
    /\ lastPush.devices =
           [i \in 1..Len(deviceClients) |-> deviceClients[i].name]

\* C24: in a push flow enrollFaceTemplate is called for a template and a
\* device only if the device's name is not in the template's syncedDevices
\* as the flow read it at its start; so a push over the templates and the
\* devices of a completed push whose enrolls were all acknowledged makes no
\* enrollFaceTemplate call and writes nothing to the ledger, while it still
\* lists the templates.
C24_EnrollOnlyUnsynced ==
    [][/\ pc' = "push" => C24_CalledOnlyIfUnlisted'
       /\ C24_SecondPush' =>
              /\ faceTemplates' = faceTemplates
              /\ calls'.enrollFaceTemplate = {}]_vars

\* the second push has visited every device: its templates are listed, each
\* was acknowledged by each of its devices before, and no call was made
C24_Witness ==
    /\ C24_SecondPush
    /\ devIdx > Len(deviceClients)
    /\ Len(templates) > 1
    /\ Len(deviceClients) > 1
    /\ \A i \in 1..Len(templates), j \in 1..Len(deviceClients) :
           <<templates[i].id, deviceClients[j].name>> \in acked
    /\ calls.enrollFaceTemplate = {}
    /\ calls.enrollUser # {}

----------------------------------------------------------------------------
(* C25 *)

\* C25: in every push flow enrollUser is attempted once for every returned
\* user on every device of the flow, whatever earlier pushes did and
\* whatever the ledger holds: after the flow's loop passed k devices the
\* calls made are the pairs of every user with each of the k devices, so a
\* flow that completes made |users| x |devices| calls.
C25_EnrollUserForEveryPair ==
    pc = "push" =>
        /\ calls.enrollUser = (1..Len(users)) \X (1..(devIdx - 1))
        /\ Cardinality(calls.enrollUser) = Len(users) * (devIdx - 1)
        /\ users = getUnsyncedUsers

\* a second push, after one whose enrolls were all acknowledged, has passed
\* every device and called enrollUser for every pair again
C25_Witness ==
    /\ pc = "push"
    /\ cycles = 2
    /\ lastPush.allAcked
    /\ lastPush.templates # {}
    /\ devIdx > Len(deviceClients)
    /\ Len(deviceClients) = 3
    /\ Cardinality(calls.enrollUser) = Len(getUnsyncedUsers) * 3
    /\ calls.enrollFaceTemplate = {}
    /\ calls.userOk # calls.enrollUser

----------------------------------------------------------------------------
(* C26 *)

\* C26: when a push flow completes normally, the count in its success row is
\* the number of enrollUser calls that returned True plus the number of
\* enrollFaceTemplate calls that returned True, over all devices of the
\* flow; calls that failed add nothing.
C26_CountsSuccessfulEnrolls ==
    [][(pc = "push" /\ pc' = "idle" /\ done'.outcome = "ok") =>
           /\ Len(syncLogs') = Len(syncLogs) + 1
           /\ syncLogs'[Len(syncLogs')].status = "success"
           /\ syncLogs'[Len(syncLogs')].recordsSynced =
                  Cardinality(calls.userOk) + Cardinality(calls.templateOk)]_vars

\* a push completed after calls that failed and calls that succeeded, of
\* both kinds, and its row counts the successful ones
C26_Witness ==
    /\ pc = "idle"
    /\ done = [flow |-> "push", outcome |-> "ok"]
    /\ ~lastPush.allAcked
    /\ Len(lastPush.devices) > 1
    /\ Len(syncLogs) = 1
    /\ syncLogs[1].status = "success"
    /\ syncLogs[1].recordsSynced = Len(getUnsyncedUsers) + 1

----------------------------------------------------------------------------
(* C27 *)

\* the terminals an operator switches between two flows
SwitchTerminals == {1, 3}

\* push and pull flows in which no store call raises, while operators switch
\* terminals between the flows
NextDevices ==
    \/ PushStartOk
    \/ \E uAcks \in UserAckSets, tAcks \in {{}, 1..Len(templates)} :
          PushDevice(uAcks, tAcks, 0, FALSE)
    \/ PushFinishOk
    \/ PullStartOk
    \/ \E logs \in OpsBatches : PullDevice(logs, "none", FALSE)
    \/ PullFinish
    \/ \E d \in SwitchTerminals : ToggleActive(d)

SpecDevices == Init /\ [][NextDevices]_vars

\* the ids of the rows of terminalsa that are active in the store
C27_ActiveIds == {terminalsa[i].terminalid : i \in {t \in Terminals : active[t]}}

\* the ids of the first k devices of the manager's list
C27_ListIds(k) == {deviceClients[i].terminalId : i \in 1..k}

\* C27: a push or pull flow contacts exactly the devices that are active in
\* the store when the flow refreshes its list. While a flow runs its list
\* holds each active terminal once and no other; the enroll calls of a push
\* were made on the devices the loop has passed, of that list, and so were
\* the fetch calls of a pull; so a terminal switched off between two flows
\* gets no call in the later one, and one switched on gets its calls.
C27_ContactsActiveDevices ==
    /\ pc \in {"push", "pull"} =>
           /\ C27_ListIds(Len(deviceClients)) = C27_ActiveIds
           /\ Len(deviceClients) = Cardinality(C27_ActiveIds)
    /\ pc = "push" =>
           /\ {p[2] : p \in calls.enrollUser} = 1..(devIdx - 1)
           /\ {p[2] : p \in calls.enrollFaceTemplate} \subseteq 1..(devIdx - 1)
    /\ pc = "pull" =>
           /\ Len(visits) = devIdx - 1
           /\ \A i \in 1..Len(visits) :
                  /\ visits[i].terminalId = deviceClients[i].terminalId
                  /\ visits[i].step \in {"saved", "empty"}

\* a push reached the first two terminals; then the first was switched off
\* and the third switched on, and a pull fetched from the second and the
\* third and from no other
C27_Witness ==
    /\ lastPush.devices = <<"Main", "Server">>
    /\ pc = "pull"
    /\ devIdx > Len(deviceClients)
    /\ active = <<FALSE, TRUE, TRUE>>
    /\ [i \in 1..Len(visits) |-> visits[i].terminalId] = <<"1002", "1003">>

----------------------------------------------------------------------------
(* C28 *)

\* the positions of the ledger rows of a user, by id and role
C28_RowsOf(ledger, user) ==
    {i \in 1..Len(ledger) :
        ledger[i].userId = user.id /\ ledger[i].userType = user.role}

\* no two rows of the ledger have the same (userId, userType) or the same id
C28_AtMostOneRow(ledger) ==
    \A i, j \in 1..Len(ledger) :
        \/ i = j
        \/ /\ ledger[i].id # ledger[j].id
           /\ \/ ledger[i].userId # ledger[j].userId
              \/ ledger[i].userType # ledger[j].userType

\* a call of getUnsyncedFaceTemplates on the ledger keeps the rows it finds,
\* leaves exactly one row in the ledger for every user whose photo it found,
\* and returns that row's id for the user: the id of the row the user had,
\* when there was one
C28_CallReturnsTheRow(ledger) ==
    LET all_users == getUnsyncedUsers
        r == getUnsyncedFaceTemplates(ledger, 0)
        WithPhoto == {u \in 1..Len(all_users) : Photos[u] # None}
    IN  /\ ~r.raised
        /\ Len(r.templates) = Cardinality(WithPhoto)
        /\ SubSeq(r.ledger, 1, Len(ledger)) = ledger
        /\ \A u \in WithPhoto :
               LET before == C28_RowsOf(ledger, all_users[u])
                   after == C28_RowsOf(r.ledger, all_users[u])
               IN  /\ Cardinality(after) = 1
                   /\ before # {} => after = before
                   /\ \E k \in 1..Len(r.templates) :
                          /\ r.templates[k].userId = all_users[u].id
                          /\ r.templates[k].userName = all_users[u].name
                          /\ \A i \in after : r.templates[k].id = r.ledger[i].id

\* C28: after any sequence of getUnsyncedFaceTemplates calls the ledger has
\* at most one row per (userId, role); a row, once made, keeps its id and
\* its user; the call that makes it has stored it when it returns, and every
\* later call returns that row's id for the user.
C28_OneRowPerUser ==
    [][/\ C28_AtMostOneRow(faceTemplates')
       /\ Len(faceTemplates') >= Len(faceTemplates)
       /\ \A i \in 1..Len(faceTemplates) :
              /\ faceTemplates'[i].id = faceTemplates[i].id
              /\ faceTemplates'[i].userId = faceTemplates[i].userId
              /\ faceTemplates'[i].userType = faceTemplates[i].userType
       /\ C28_CallReturnsTheRow(faceTemplates')
       /\ (pc = "idle" /\ pc' = "push") =>
              \A k \in 1..Len(templates') :
                  \E i \in 1..Len(faceTemplates') :
                      faceTemplates'[i].id = templates'[k].id]_vars

\* a second push flow has read its templates: the first call made the rows,
\* the later call returned the same ids and made no row
C28_Witness ==
    /\ pc = "push"
    /\ cycles = 2
    /\ Cardinality(lastPush.templates) > 1
    /\ lastPush.templates = {templates[k].id : k \in 1..Len(templates)}
    /\ Len(faceTemplates) = Cardinality(lastPush.templates)

----------------------------------------------------------------------------
(* C29 *)

\* the field is present and is not the text of an integer
C29_NotNumeric(v) == v # None /\ v \notin IntTexts

\* log number i of the call carries the first use of its dedup key: no row of
\* the table before the call and no earlier log of the call has it
C29_KeyIsNew(i) ==
    LET logs == lastAppend'.logs
        dt == LogDatetime(logs[i], now)
    IN  /\ dt # None
        /\ \A e \in BagToSet(accesslogs) :
               ~(/\ e.terminalid = lastAppend'.terminalId
                 /\ e.datetime = dt
                 /\ e.cardid = logs[i].CardNo)
        /\ \A j \in 1..(i - 1) :
               ~(/\ LogDatetime(logs[j], now) = dt
                 /\ logs[j].CardNo = logs[i].CardNo)

\* C29: a raw log whose Method or Status is not numeric is stored by
\* saveDeviceAccessLogs with that field set to 0, when its dedup key is new;
\* the other logs of the batch are processed as usual.
C29_NonNumericStoredAsZero ==
    [][lastAppend' # lastAppend =>
           \A i \in 1..Len(lastAppend'.logs) :
               LET log == lastAppend'.logs[i]
               IN  (/\ C29_NotNumeric(log.Method) \/ C29_NotNumeric(log.Status)
                    /\ C29_KeyIsNew(i)) =>
                       \E e \in BagToSet(accesslogs') :
                           /\ e.terminalid = lastAppend'.terminalId
                           /\ e.datetime = LogDatetime(log, now)
                           /\ e.cardid = log.CardNo
                           /\ C29_NotNumeric(log.Method) => e.verifysource = 0
                           /\ C29_NotNumeric(log.Status) => e.verifystatus = 0]_vars

----------------------------------------------------------------------------
(* C30 *)

\* the key of the line starts with records[ and contains ]. and the text
\* between the brackets is not an integer
C30_BadIndex(line) ==
    LET key == SplitFirst(line, "=")[1]
    IN  /\ Find(line, "=") > 0
        /\ KeyStartsAndCloses(key)
        /\ ~IsIntText(IndexText(key))

\* C30: a response line whose key starts with records[ and contains ]. but
\* whose index is not an integer is ignored like any other line that does
\* not match: getOfflineAccessLogs still returns the mappings of all the
\* well-formed records of the response.
C30_BadIndexLineIgnored ==
    LET text == channel.outcome.text
    IN  (/\ channel.op = "getOfflineAccessLogs"
         /\ Truthy(channel.outcome)
         /\ \E i \in 1..Len(text) : C30_BadIndex(text[i])
         /\ \E i \in 1..Len(text) : C15_IsRecordLine(text[i])
         /\ \A i \in 1..Len(text) :
                \/ C30_BadIndex(text[i])
                \/ C15_IsRecordLine(text[i])
                \/ text[i][1] # "records") =>
            /\ ~channel.result.raised
            /\ channel.result.value = C15_Expected(text)

----------------------------------------------------------------------------
(* Direct calls of getUnsyncedUsers *)

\* the bounds a caller may give
WindowBounds == {<<>>} \cup {<<t>> : t \in WindowTimes}

\* the windows a caller may give
Windows == [startTime : WindowBounds, endTime : WindowBounds]

\* lines 190-276: a direct call, with the source tables that exist
CallGetUnsyncedUsersOf(tables, startTime, endTime) ==
    /\ pc = "idle"
    /\ query' = [tables |-> tables, startTime |-> startTime,
                 endTime |-> endTime,
                 result |-> getUnsyncedUsersOf(tables, startTime, endTime)]
    /\ UNCHANGED <<storeVars, now, flowVars, histVars, lastAppend, channel,
                   schedVars, connections, calls, lastPush, received>>

NextUsers ==
    \E tables \in SUBSET SourceTables, w \in Windows :
        CallGetUnsyncedUsersOf(tables, w.startTime, w.endTime)

SpecUsers == Init /\ [][NextUsers]_vars

----------------------------------------------------------------------------
(* C31 *)

\* the date text lies in the window, as the store compares texts; a bound
\* that is left out does not restrict
C31_InWindow(date, startTime, endTime) ==
    /\ startTime # <<>> => TextLeq(FormatDate(startTime[1]), date)
    /\ (startTime # <<>> /\ endTime # <<>>) =>
           TextLeq(date, FormatDate(endTime[1]))

\* C31: with a window getUnsyncedUsers returns, for every role, only the
\* users whose registrationDate lies in the window (between start and end
\* when both are given, on or after start when only a start is given); with
\* no window it returns all users of all roles. Students and employees are
\* filtered the same way.
C31_WindowFiltersEveryRole ==
    LET all_users == getUnsyncedUsers
        InWindow(user) ==
            C31_InWindow(user.registrationDate, query.startTime, query.endTime)
    IN  query.tables = SourceTables =>
            query.result = Returns(SelectSeq(all_users, InWindow))

----------------------------------------------------------------------------
(* C33 *)

\* the source table of a role
C33_TableOf(role) == IF role = "student" THEN "student" ELSE "new_employee"

\* C33: getUnsyncedUsers tolerates a missing source table. It never raises;
\* when one role's table does not exist it returns exactly the users of the
\* other role's table, as the call returns them when both tables exist, and
\* when both are missing it returns the empty list.
C33_MissingTableYieldsNothing ==
    LET full == getUnsyncedUsersOf(SourceTables, query.startTime,
                                   query.endTime).value
        Exists(user) == C33_TableOf(user.role) \in query.tables
    IN  query.result.value # None =>
            /\ ~query.result.raised
            /\ query.result.value = SelectSeq(full, Exists)
            /\ query.tables = {} => query.result.value = <<>>

\* a call with no window found the student table missing and returned the
\* employees
C33_Witness ==
    /\ query.tables = {"new_employee"}
    /\ query.startTime = <<>>
    /\ ~query.result.raised
    /\ Len(query.result.value) = Len(new_employee)
    /\ \A i \in 1..Len(query.result.value) :
           query.result.value[i].role = "employee"

----------------------------------------------------------------------------
(* C32 *)

\* push flows started with any window, on devices that acknowledge none or
\* all of the calls, with no store failure
NextWindow ==
    \/ \E w \in Windows : PushStart(w.startTime, w.endTime)
    \/ \E uAcks \in UserAckSets, tAcks \in {{}, 1..Len(templates)} :
          PushDevice(uAcks, tAcks, 0, FALSE)
    \/ PushFinishOk

SpecWindow == Init /\ [][NextWindow]_vars

\* the user of the list that the template belongs to
C32_Listed(list, template) ==
    \E i \in 1..Len(list) :
        list[i].id = template.userId /\ list[i].name = template.userName

\* C32: in a push flow started with a window the templates are derived from
\* all users, so they are the templates of a push without a window: one for
\* every user with a photo, inside the window or not. On every device the
\* loop has passed, enrollFaceTemplate was called for each template whose
\* list lacked the device's name, while enrollUser was called for the users
\* of the window only.
C32_TemplatesIgnoreWindow ==
    pc = "push" =>
        /\ [k \in 1..Len(templates) |-> templates[k].id]
               = [k \in 1..Len(templates) |->
                     getUnsyncedFaceTemplates(faceTemplates, 0).templates[k].id]
        /\ Len(templates) =
               Cardinality({u \in 1..Len(getUnsyncedUsers) : Photos[u] # None})
        /\ \A u \in 1..Len(getUnsyncedUsers) :
               Photos[u] # None =>
                   \E k \in 1..Len(templates) :
                       /\ templates[k].userId = getUnsyncedUsers[u].id
                       /\ templates[k].userName = getUnsyncedUsers[u].name
        /\ \A k \in 1..Len(templates), d \in 1..(devIdx - 1) :
               ~Contains(templates[k].syncedDevices, deviceClients[d].name)
                   => <<templates[k].id, d>> \in calls.enrollFaceTemplate
        /\ calls.enrollUser = (1..Len(users)) \X (1..(devIdx - 1))

\* a flow whose window holds no user with a template has passed its first
\* device: no enrollUser call was made for the owner of a template, and the
\* template was enrolled and acknowledged there
C32_Witness ==
    /\ pc = "push"
    /\ devIdx > 1
    /\ users # <<>>
    /\ \E k \in 1..Len(templates) :
           /\ ~C32_Listed(users, templates[k])
           /\ <<templates[k].id, 1>> \in calls.templateOk

----------------------------------------------------------------------------
(* C34 *)

\* the timestamps of the rows stored for the terminal
C34_Stamps(table, terminalId) ==
    {ParseTime(e.datetime) : e \in {x \in BagToSet(table) :
                                      x.terminalid = terminalId}}

\* their maximum; <<>> when no row is stored for the terminal
C34_MaxStamp(table, terminalId) ==
    LET stamps == C34_Stamps(table, terminalId)
    IN  IF stamps = {} THEN <<>>
        ELSE <<CHOOSE m \in stamps : \A t \in stamps : t <= m>>

\* C34: for each device of a pull flow the fetch window starts at the
\* maximum timestamp among the rows stored for the device's terminalId at
\* that moment (no start when none is stored) and ends at the current time;
\* rows of other terminals do not influence the start.
C34_WindowFromOwnRows ==
    [][(pc = "pull" /\ Len(visits') = Len(visits) + 1
        /\ visits'[Len(visits')].step # "lastSynced raised") =>
           LET v == visits'[Len(visits')]
           IN  /\ v.terminalId = deviceClients[devIdx].terminalId
               /\ v.start = C34_MaxStamp(accesslogs, v.terminalId)
               /\ v.end = now]_vars

\* the second terminal is asked for the logs after its own newest row while
\* the first terminal has a newer one; and a terminal with no row is asked
\* with no start
C34_Witness ==
    /\ Len(visits) = 2
    /\ visits[1].terminalId = "1001" /\ visits[1].start = <<>>
    /\ visits[2].terminalId = "1002" /\ visits[2].start = <<9>>
    /\ \E e \in BagToSet(accesslogs) :
           e.terminalid = "1001" /\ ParseTime(e.datetime) > 9
    /\ visits[2].end = now

----------------------------------------------------------------------------
(* Direct calls of saveDeviceAccessLogs in which an INSERT may raise *)

\* lines 434-506: a direct call for terminal d; insertFails: the positions
\* of the logs whose INSERT raises
CallAppendWith(d, logs, insertFails) ==
    LET dc == DeviceClient(terminalsa[d])
        r  == saveDeviceAccessLogsWith(accesslogs, dc, logs, now, insertFails)
        Maps(log) == ~LogRaises(log, now)
    IN  /\ logs # <<>>
        /\ BagCardinality(r.table) <= MaxStored
        /\ accesslogs' = r.table
        /\ lastAppend' = [terminalId |-> dc.terminalId,
                          logs |-> logs, failed |-> insertFails,
                          offered |-> Len(logs),
                          mapped |-> Len(SelectSeq(logs, Maps)),
                          savedCount |-> r.savedCount]
        /\ UNCHANGED <<faceTemplates, active, syncLogs, now, flowVars, histVars,
                       channel, schedVars, connections, calls, lastPush, query,
                       received>>

NextBatch ==
    \/ Tick
    \/ \E d \in OpsTerminals, logs \in Batches,
          insertFails \in SUBSET (1..MaxBatch) :
            /\ insertFails \subseteq 1..Len(logs)
            /\ CallAppendWith(d, logs, insertFails)

SpecBatch == Init /\ [][NextBatch]_vars

----------------------------------------------------------------------------
(* C35 *)

\* log number i of the call failed: it could not be mapped, or its INSERT
\* raised
C35_Failed(i) ==
    \/ LogRaises(lastAppend'.logs[i], now)
    \/ i \in lastAppend'.failed

\* the dedup key of log number i of the call
C35_Key(i) ==
    <<lastAppend'.terminalId, LogDatetime(lastAppend'.logs[i], now),
      lastAppend'.logs[i].CardNo>>

\* log number i did not fail and its key is new: no row of the table before
\* the call has it and no earlier log of the call was stored with it
RECURSIVE C35_Due(_)
C35_Due(i) ==
    /\ ~C35_Failed(i)
    /\ \A e \in BagToSet(accesslogs) :
           <<e.terminalid, e.datetime, e.cardid>> # C35_Key(i)
    /\ \A j \in 1..(i - 1) : C35_Due(j) => C35_Key(j) # C35_Key(i)

\* C35: within one saveDeviceAccessLogs batch a record that cannot be mapped
\* or whose INSERT raises does not stop the batch: every other record whose
\* dedup key is new is stored, and the count returned is the number of
\* records stored, so it leaves the failed records out.
C35_FailedRecordSkipped ==
    [][lastAppend' # lastAppend =>
           LET n == Len(lastAppend'.logs)
               kept == {i \in 1..n : C35_Due(i)}
               dc == DeviceClient(terminalsa[
                         CHOOSE d \in Terminals :
                             terminalsa[d].terminalid = lastAppend'.terminalId])
           IN  /\ \A i \in kept :
                      \E e \in BagToSet(accesslogs') :
                          e = LogRow(dc, lastAppend'.logs[i], now)
               /\ lastAppend'.savedCount = Cardinality(kept)
               /\ BagCardinality(accesslogs')
                      = BagCardinality(accesslogs) + Cardinality(kept)]_vars

\* a call of two logs: the first failed, the second was stored and counted
C35_Witness ==
    /\ Len(lastAppend.logs) = 2
    /\ \/ LogRaises(lastAppend.logs[1], now)
       \/ 1 \in lastAppend.failed
    /\ ~LogRaises(lastAppend.logs[2], now)
    /\ lastAppend.savedCount = 1
    /\ \E e \in BagToSet(accesslogs) :
           /\ e.terminalid = lastAppend.terminalId
           /\ e.cardid = lastAppend.logs[2].CardNo

----------------------------------------------------------------------------
(* C36 *)

\* every ledger row is kept with its list, or with its list extended
C36_LedgerKept ==
    /\ Len(faceTemplates') >= Len(faceTemplates)
    /\ \A i \in 1..Len(faceTemplates) :
           /\ faceTemplates'[i].id = faceTemplates[i].id
           /\ IsPrefix(faceTemplates[i].syncedDevices,
                       faceTemplates'[i].syncedDevices)

\* the marks the flow made on the devices it passed are in the ledger
C36_MarksPersist ==
    \A p \in calls.templateOk :
        \E i \in 1..Len(faceTemplates') :
            /\ faceTemplates'[i].id = p[1]
            /\ Contains(faceTemplates'[i].syncedDevices,
                        deviceClients[p[2]].name)

\* on every device the loop has passed, enrollFaceTemplate was called
\* exactly for the templates whose list, as read at the start of the flow,
\* lacked the device's name
C36_CallsWhatIsUnmarked ==
    \A k \in 1..Len(templates), d \in 1..(devIdx - 1) :
        <<templates[k].id, d>> \in calls.enrollFaceTemplate
            <=> ~Contains(templates[k].syncedDevices, deviceClients[d].name)

\* C36: when a push flow fails part-way, after some templates were marked
\* synced, the marks made before the failure stay in the ledger, and the
\* audit table gets a row with status error and count 0; the next push does
\* not enroll the pairs already marked and does enroll the others, on the
\* devices and for the templates the failed flow never reached.
C36_PartialPushKeepsLedger ==
    [][/\ (pc = "push" /\ pc' = "idle" /\ done'.outcome # "ok") =>
              /\ C36_LedgerKept
              /\ C36_MarksPersist
              /\ Len(syncLogs') = Len(syncLogs) + 1
              /\ syncLogs'[Len(syncLogs')].status = "error"
              /\ syncLogs'[Len(syncLogs')].recordsSynced = 0
       /\ pc' = "push" => C36_CallsWhatIsUnmarked']_vars

----------------------------------------------------------------------------
(* The scheduled push job, run again and again by the service's worker *)

\* line 913-914 with the push job alone on the schedule: run_pending finds
\* it due, or finds nothing due
RepeatLoopTest(jobs) ==
    /\ jobs \in {<<>>, <<"push">>}
    /\ WorkerLoopTest(jobs)

\* lines 943-963 on devices whose failures are transient: a device may
\* refuse enrollFaceTemplate in the first MaxCycles flows, and acknowledges
\* it in every later one
RepeatPushDevice(uAcks, tAcks) ==
    /\ cycles > MaxCycles => tAcks = 1..Len(templates)
    /\ WorkerPushDevice(uAcks, tAcks)

NextRepeat ==
    \/ StartService
    \/ WorkerStart
    \/ WorkerPushStart
    \/ \E uAcks \in UserAckSets, tAcks \in SUBSET (1..Len(templates)) :
           RepeatPushDevice(uAcks, tAcks)
    \/ WorkerPushFinish
    \/ WorkerPullStart
    \/ WorkerPullDevice
    \/ WorkerPullFinish
    \/ WorkerJobReturned
    \/ \E jobs \in DueLists : RepeatLoopTest(jobs)
    \/ WorkerSleep

\* The worker thread keeps running (weak fairness of its steps), and the
\* schedule makes the push job due again and again (lines 904-906 with the
\* loop of lines 913-915): whenever the loop test can find it due over and
\* over, it eventually does.
SpecRepeat ==
    /\ Init
    /\ [][NextRepeat]_vars
    /\ WF_vars(NextRepeat)
    /\ SF_vars(RepeatLoopTest(<<"push">>))

----------------------------------------------------------------------------
(* C37 *)

\* every template has a ledger row, and the row's syncedDevices holds the
\* name of every active device
C37_AllListed ==
    /\ Len(faceTemplates) = Cardinality(TemplateIdx)
    /\ \A i \in 1..Len(faceTemplates), d \in 1..Len(getDevices(active)) :
           Contains(faceTemplates[i].syncedDevices, getDevices(active)[d].name)

\* C37: under repeated push cycles with the same users, templates and
\* active devices, and devices whose refusals of enrollFaceTemplate are
\* transient, eventually every template's syncedDevices holds the name of
\* every active device, and from then on no flow calls enrollFaceTemplate.
C37_EventuallyAllSyncedThenQuiet ==
    <>[](C37_AllListed /\ calls.enrollFaceTemplate = {})

\* a push that follows a push with refused calls has reached the end of its
\* loop: it made the calls again, and the ledger is complete
C37_Witness ==
    /\ pc = "push"
    /\ devIdx > Len(deviceClients)
    /\ lastPush.devices # <<>>
    /\ ~lastPush.allAcked
    /\ calls.enrollFaceTemplate # {}
    /\ calls.enrollFaceTemplate = calls.templateOk
    /\ C37_AllListed

----------------------------------------------------------------------------
(* The push flow on devices that acknowledge every call *)

\* lines 943-963 when enrollFaceTemplate returns True every time
PushDeviceAcking(uAcks) == PushDevice(uAcks, 1..Len(templates), 0, FALSE)

\* push flows, no store call raising, while operators switch terminals
\* between them
NextAcking ==
    \/ PushStartOk
    \/ \E uAcks \in UserAckSets : PushDeviceAcking(uAcks)
    \/ PushFinishOk
    \/ \E d \in SwitchTerminals : ToggleActive(d)

SpecAcking == Init /\ [][NextAcking]_vars

----------------------------------------------------------------------------
(* C38 *)

\* C38: every active device receives an acknowledged enrollFaceTemplate call
\* for every template, also when two active devices have the same name and
\* the second became active after the first was recorded. Once a template's
\* syncedDevices holds a name, line 955 lets no later flow call a device of
\* that name for it; so at the end of a flow's loop, every device of the
\* flow whose name a template's list holds must have received the
\* acknowledged call for that template.
C38_EveryListedDeviceReceived ==
    (pc = "push" /\ devIdx > Len(deviceClients)) =>
        \A d \in 1..Len(deviceClients), i \in 1..Len(faceTemplates) :
            Contains(faceTemplates[i].syncedDevices, deviceClients[d].name)
                => <<faceTemplates[i].id, deviceClients[d].terminalId>>
                       \in received

----------------------------------------------------------------------------
(* The pull flow against a device that pages its answers *)

\* Config.MAX_RECORDS_PER_SYNC (line 628, sent as count= in line 760): 100 in
\* the code, scaled down here together with the device's logs
MAX_RECORDS_PER_SYNC == 1

\* the access logs a device has recorded: two on terminal 1001, at the
\* instants 9 and 10, and none on the others
DeviceRecords(terminalId) ==
    IF terminalId = "1001"
    THEN { [CreateTime |-> "9", CardNo |-> "C1", Type |-> "Entry",
            Method |-> "1", Status |-> "1", UserID |-> "U1", Door |-> "1"],
           [CreateTime |-> "10", CardNo |-> "C2", Type |-> "Exit",
            Method |-> "1", Status |-> "1", UserID |-> "U2", Door |-> "1"] }
    ELSE {}

\* lines 762-765: the records the request selects; StartTime and EndTime are
\* sent only when given, and both ends belong to the window
RecordsInWindow(terminalId, startTime, endTime) ==
    {log \in DeviceRecords(terminalId) :
        /\ startTime # <<>> => startTime[1] <= IntOf(log.CreateTime)
        /\ IntOf(log.CreateTime) <= endTime}

\* lines 756-786 against the device: the lists it may answer with, which hold
\* count records of the window, or all of them when they are fewer, each
\* once, in an order the device chooses
DeviceAnswers(terminalId, startTime, endTime) ==
    LET selected == RecordsInWindow(terminalId, startTime, endTime)
        n == IF Cardinality(selected) < MAX_RECORDS_PER_SYNC
             THEN Cardinality(selected) ELSE MAX_RECORDS_PER_SYNC
    IN  {logs \in SeqsUpTo(selected, n) :
            /\ Len(logs) = n
            /\ \A i, j \in 1..n : logs[i] = logs[j] => i = j}

\* lines 995-1036 for the device at devIdx, which answers with a page, or
\* whose call fails (getOfflineAccessLogs then returns [], lines 780-786)
PullDevicePaged(logs) ==
    /\ pc = "pull"
    /\ devIdx <= Len(deviceClients)
    /\ logs \in {<<>>} \cup DeviceAnswers(
                    deviceClients[devIdx].terminalId,
                    getLastSyncedLogTime(accesslogs,
                                         deviceClients[devIdx].terminalId),
                    now)
    /\ PullDevice(logs, "none", FALSE)

\* the scheduled pull flow against the paging devices, no store call
\* raising, while time passes
NextPaged ==
    \/ PullStartOk
    \/ \E logs \in SeqsUpTo(DeviceRecords("1001"), MAX_RECORDS_PER_SYNC) :
           PullDevicePaged(logs)
    \/ PullFinish
    \/ Tick

SpecPaged == Init /\ [][NextPaged]_vars

----------------------------------------------------------------------------
(* C39 *)

\* the log is in accesslogs as a row of the terminal
C39_Stored(terminalId, log) ==
    \E e \in BagToSet(accesslogs) :
        /\ e.terminalid = terminalId
        /\ e.datetime = FormatTime(IntOf(log.CreateTime))
        /\ e.cardid = log.CardNo

\* C39: against a device that answers each fetch with at most the page-size
\* cap of records of the requested window, in any order, every log the
\* device recorded is eventually stored. The start of every later window is
\* at or after the maximum stored timestamp of the terminal (rows are never
\* deleted), so a log with an earlier timestamp that is not stored is never
\* fetched again: every log earlier than that maximum must be stored.
C39_NoLogLeftBehind ==
    \A t \in Terminals :
        LET lastSyncedTime ==
                getLastSyncedLogTime(accesslogs, terminalsa[t].terminalid)
        IN  \A log \in DeviceRecords(terminalsa[t].terminalid) :
                (lastSyncedTime # <<>>
                    /\ IntOf(log.CreateTime) < lastSyncedTime[1])
                    => C39_Stored(terminalsa[t].terminalid, log)

----------------------------------------------------------------------------
(* SyncManager.start and SyncManager.stop while the process lives *)

\* the statements of start() in the worker thread
WorkerSteps ==
    \/ WorkerStart
    \/ WorkerPushStart
    \/ \E uAcks \in UserAckSets, tAcks \in {{}, 1..Len(templates)} :
           WorkerPushDevice(uAcks, tAcks)
    \/ WorkerPushFinish
    \/ WorkerPullStart
    \/ WorkerPullDevice
    \/ WorkerPullFinish
    \/ WorkerJobReturned
    \/ \E jobs \in DueLists : WorkerLoopTest(jobs)
    \/ WorkerSleep

\* the worker and the thread that calls stop(), up to the return of stop()
NextStop ==
    \/ StartService
    \/ WorkerStart
    \/ WorkerPushStart
    \/ \E uAcks \in UserAckSets, tAcks \in {{}, 1..Len(templates)} :
           WorkerPushDevice(uAcks, tAcks)
    \/ WorkerPushFinish
    \/ WorkerPullStart
    \/ WorkerPullDevice
    \/ WorkerPullFinish
    \/ WorkerJobReturned
    \/ \E jobs \in DueLists : WorkerLoopTest(jobs)
    \/ WorkerSleep
    \/ StopRequest

\* The worker thread, once launched, keeps being scheduled (weak fairness of
\* its statements); nothing obliges anyone to press Ctrl+C.
SpecStop == Init /\ [][NextStop]_vars /\ WF_vars(WorkerSteps)

----------------------------------------------------------------------------
(* C40 *)

====
